---- MODULE Spec2Model ----
(***************************************************************************)
(* Streaming multipart decoder of @proventuslabs/nestjs-multipart-form:    *)
(* parseMultipartData (the decoder), MultipartInterceptor (the request     *)
(* lifecycle), the file streams handed out on the file channel, and the    *)
(* filter / validate operators over the two channels.                      *)
(*                                                                         *)
(* Spec     : one intercepted HTTP request, from intercept() to the end of *)
(*            the parse, with every interleaving of tokenizer events, file *)
(*            stream ticks, handler steps and cancellation.                *)
(* LiveSpec : Spec with the fairness the event loop gives.                 *)
(* OpsSpec  : the operators of files/operators.ts and                      *)
(*            multipart-fields.operators.ts applied to bounded inputs.     *)
(***************************************************************************)
EXTENDS Naturals, Sequences, FiniteSets

\* ---------------------------------------------------------------- bounds

\* Parts (tokenizer events) of one request body.
MaxParts == 2
\* File parts among them.
MaxFiles == 1
\* Bytes of the file parts of one request body.
MaxBytes == 1

VARIABLES
    cfg,     \* options and the handler's shape, fixed per request
    req,     \* the request byte source: "paused" | "flowing" | "errored"
    dec,     \* the decoder subscription (parseMultipartData's closure)
    files,   \* the file channel (Subject)
    fields,  \* the field channel (Subject)
    fs,      \* the file streams published so far
    tok,     \* the tokenizer (busboy): events emitted, body end, finish
    icp,     \* the interceptor: handler result stream, done signal, drain, output
    hist,    \* what the fail path and the process have done (observation only)
    ops      \* state of the operator specification (OpsSpec)

vars == <<cfg, req, dec, files, fields, fs, tok, icp, hist, ops>>

\* The request state as one record, so that a handler's nested calls compose.
St == [cfg |-> cfg, req |-> req, dec |-> dec, files |-> files, fields |-> fields,
       fs |-> fs, tok |-> tok, icp |-> icp, hist |-> hist]

Commit(t) ==
    /\ cfg' = t.cfg
    /\ req' = t.req
    /\ dec' = t.dec
    /\ files' = t.files
    /\ fields' = t.fields
    /\ fs' = t.fs
    /\ tok' = t.tok
    /\ icp' = t.icp
    /\ hist' = t.hist
    /\ UNCHANGED ops

\* ------------------------------------------------------- rxjs Subject

NewSubject == [state |-> "open", err |-> "none", log |-> <<>>]

\* Subject.next: dropped once the subject is stopped.
SubjectNext(ch) ==
    IF ch.state = "open" THEN [ch EXCEPT !.log = Append(@, "n")] ELSE ch

SubjectErrorUnguarded(ch, e) ==
    [state |-> "error", err |-> e, log |-> Append(ch.log, "e")]

\* files.error(err) / fields.error(err): the first terminal notification wins.
SubjectError(ch, e) ==
    IF ch.state = "open"
    THEN [state |-> "error", err |-> e, log |-> Append(ch.log, "e")]
    ELSE ch

\* files.complete() / fields.complete().
SubjectComplete(ch) ==
    IF ch.state = "open"
    THEN [state |-> "complete", err |-> "none", log |-> Append(ch.log, "c")]
    ELSE ch

\* --------------------------------------------------- interceptor pieces

\* done(): upstreamExecutionDone$.complete(); the decoder's complete callback
\* runs only while its subscription to the signal is still held.
DoneComplete(s) ==
    IF s.icp.done THEN s
    ELSE [s EXCEPT !.icp.done = TRUE,
                   !.dec.shouldEmitErrors =
                       IF s.dec.doneSub THEN s.cfg.bubbleErrors # TRUE ELSE @,
                   !.dec.doneSub = FALSE]

TeardownEveryCall(s) ==
    IF ~s.dec.teardownSet THEN s
    ELSE [s EXCEPT !.dec.torn = TRUE,
                   !.hist.nTorn = @ + 1,
                   !.dec.doneSub = FALSE,
                   !.dec.piped = FALSE,
                   !.req = IF @ = "flowing" THEN "paused" ELSE @,
                   !.dec.bbListeners = FALSE,
                   !.dec.sub = IF @ = "open" THEN "closed" ELSE @]

\* The teardown returned by the decoder's subscribe function; rxjs runs it once,
\* when the subscriber is unsubscribed, has errored or has completed.
Teardown(s) ==
    IF ~s.dec.teardownSet \/ s.dec.torn THEN s
    ELSE [s EXCEPT !.dec.torn = TRUE,
                   !.hist.nTorn = @ + 1,
                   !.dec.doneSub = FALSE,
                   !.dec.piped = FALSE,
                   !.req = IF @ = "flowing" THEN "paused" ELSE @,
                   !.dec.bbListeners = FALSE,
                   !.dec.sub = IF @ = "open" THEN "closed" ELSE @]

InnerEndDropsDrain(s, how) ==
    DoneComplete([s EXCEPT !.icp.handler = IF @ = "running" THEN how ELSE @,
                           !.icp.hFilesSub = FALSE, !.icp.hFieldsSub = FALSE,
                           !.icp.drainSub = FALSE])

InnerEndNoSignal(s, how) ==
    [s EXCEPT !.icp.handler = IF @ = "running" THEN how ELSE @,
              !.icp.hFilesSub = FALSE, !.icp.hFieldsSub = FALSE]

\* The handler's result stream ends (finalize(done) runs on its unsubscription).
InnerEnd(s, how) ==
    DoneComplete([s EXCEPT !.icp.handler = IF @ = "running" THEN how ELSE @,
                           !.icp.hFilesSub = FALSE, !.icp.hFieldsSub = FALSE])

\* The interceptor's output errors: the consumer unsubscribes the whole chain,
\* the decoder subscription first, the handler's result stream second.
OutError(s, e) ==
    IF s.icp.out # "open" THEN s
    ELSE InnerEnd(Teardown([s EXCEPT !.icp.out = "error", !.icp.outErr = e]),
                  "cancelled")

OutCompletesWithHandler(s) ==
    IF s.icp.out = "open" /\ s.icp.handler = "completed"
    THEN [s EXCEPT !.icp.out = "complete"]
    ELSE s

\* switchMap completes once the decoder's stream and the handler's stream both have.
OutMaybeComplete(s) ==
    IF s.icp.out = "open" /\ s.dec.sub = "complete" /\ s.icp.handler = "completed"
    THEN [s EXCEPT !.icp.out = "complete"]
    ELSE s

\* The handler's result stream errors with e.
HandlerErrored(s, e) ==
    IF s.icp.handler # "running" THEN s
    ELSE OutError([s EXCEPT !.icp.handler = "errored", !.icp.hFilesSub = FALSE, !.icp.hFieldsSub = FALSE], e)

\* The handler's result stream completes.
HandlerCompleted(s) ==
    IF s.icp.handler # "running" THEN s
    ELSE OutMaybeComplete(InnerEnd(s, "completed"))

\* ------------------------------------------------------- decoder pieces

\* subscriber.error(err) of the decoder's own stream.
SubscriberError(s, e) ==
    IF s.dec.sub # "open" THEN s
    ELSE OutError(Teardown([s EXCEPT !.dec.sub = "error", !.dec.err = e,
                                     !.dec.log = Append(@, "e")]), e)

\* subscriber.complete() of the decoder's own stream.
SubscriberComplete(s) ==
    IF s.dec.sub # "open" THEN s
    ELSE OutMaybeComplete(Teardown([s EXCEPT !.dec.sub = "complete",
                                             !.dec.log = Append(@, "c")]))

\* files.error(err) with its observers: the drain's forEach rejects (and is
\* caught), a handler whose result is derived from the file channel errors.
FilesError(s, e) ==
    LET t == [s EXCEPT !.files = SubjectError(@, e)] IN
    IF s.files.state # "open" THEN t
    ELSE IF s.icp.hFilesSub /\ s.cfg.hForwards = "files"
    THEN HandlerErrored([t EXCEPT !.icp.drainSub = FALSE], e)
    ELSE [t EXCEPT !.icp.drainSub = FALSE, !.icp.hFilesSub = FALSE]

\* fields.error(err) with its observer: a handler whose result is derived from
\* the field channel errors.
FieldsError(s, e) ==
    LET t == [s EXCEPT !.fields = SubjectError(@, e)] IN
    IF s.fields.state # "open" THEN t
    ELSE IF s.icp.hFieldsSub THEN HandlerErrored(t, e)
    ELSE t

\* files.complete() with its observers. A handler whose result is derived from
\* the file channel completes, or, behind validateRequiredFiles with a required
\* part missing, errors with MissingFilesError.
FilesComplete(s, missing) ==
    LET t == [s EXCEPT !.files = SubjectComplete(@)] IN
    IF s.files.state # "open" THEN t
    ELSE IF s.icp.hFilesSub /\ s.cfg.hForwards = "files"
    THEN IF missing
         THEN HandlerErrored([t EXCEPT !.icp.drainSub = FALSE], "MissingFilesError")
         ELSE HandlerCompleted([t EXCEPT !.icp.drainSub = FALSE])
    ELSE [t EXCEPT !.icp.drainSub = FALSE, !.icp.hFilesSub = FALSE]

\* fields.complete() with its observer: the same for a handler on the field
\* channel and validateRequiredFields.
FieldsComplete(s, missing) ==
    LET t == [s EXCEPT !.fields = SubjectComplete(@)] IN
    IF s.fields.state # "open" THEN t
    ELSE IF s.icp.hFieldsSub
    THEN IF missing THEN HandlerErrored(t, "MissingFieldsError")
         ELSE HandlerCompleted(t)
    ELSE t

\* The body of fail: files.error(err); fields.error(err); subscriber.error(err).
Publish(s, e) == SubscriberError(FieldsError(FilesError(s, e), e), e)

\* fail(err): gated by shouldEmitErrors.
Fail(s, e) ==
    LET h == [s EXCEPT !.hist.nFail = @ + 1,
                       !.hist.lastFail = [set |-> TRUE,
                                          gate |-> s.dec.shouldEmitErrors,
                                          done |-> s.icp.done,
                                          live |-> s.dec.sub = "open"]]
    IN  IF s.dec.shouldEmitErrors THEN Publish(h, e) ELSE h

\* --------------------------------------------------------- file streams

\* new MultipartError(message, { cause }): the cause travels with the error
\* that the decoder's subscriber received.
WithCause(s, t, cause) ==
    IF s.dec.sub = "open" /\ t.dec.sub = "error" THEN [t EXCEPT !.dec.cause = cause] ELSE t

\* sync follows the stream's state.sync for as long as a push can consult it:
\* "on" until the stream's first read(), "off" after it, and "over" once the
\* data has ended (nothing is pushed after push(null)).
NewFile == [flow |-> "paused", reader |-> FALSE, errL |-> FALSE, recv |-> FALSE,
            arrived |-> 0, buffered |-> 0, delivered |-> 0, discarded |-> 0,
            sync |-> "on", eof |-> FALSE, endTick |-> FALSE, trunc |-> FALSE,
            ended |-> FALSE,
            err |-> "none", failed |-> FALSE]

\* file.readable: not yet ended (nor errored).
Readable(f) == ~f.ended /\ f.err = "none"

\* file.resume(): switches to flowing mode; the flow itself starts on the next tick.
Resume(f) == IF f.flow = "paused" THEN [f EXCEPT !.flow = "scheduled"] ELSE f

\* The drain pass's callback: if (file.readable) file.resume().
DrainFile(f) == IF Readable(f) THEN Resume(f) ELSE f

\* files.next(incomingFile) with its observers, in subscription order: the drain
\* (subscribed when the handler's result stream is subscribed), then the handler.
FilesNext(s, f) ==
    LET f1 == IF s.icp.drainSub THEN DrainFile(f) ELSE f
        f2 == [f1 EXCEPT !.recv = s.icp.hFilesSub]
    IN  [s EXCEPT !.fs = Append(@, IF s.files.state = "open" THEN f2 ELSE f),
                  !.files = SubjectNext(@)]

\* bb.on("file"): wrap, attach the end handler, publish.
OnFile(s) == FilesNext([s EXCEPT !.tok.cur = Len(s.fs) + 1, !.tok.n = @ + 1], NewFile)

\* incomingFile.once("end"): on truncation emit "error" on the file stream, then
\* fail. EventEmitter.emit("error") with no listener throws, so fail is not reached
\* and the exception is uncaught: the process dies (crash) unless the host catches it.
OnFileEnd(s, i, crash) ==
    LET e == [s EXCEPT !.fs[i].ended = TRUE] IN
    IF ~s.fs[i].trunc THEN e
    ELSE IF s.fs[i].errL
    THEN Fail([e EXCEPT !.fs[i].err = "emitted", !.fs[i].failed = TRUE],
              "TruncatedFileError")
    ELSE [e EXCEPT !.fs[i].err = "thrown", !.hist.uncaught = TRUE,
                   !.hist.crashed = crash]

OnFieldPublishesTruncated(s, truncated) ==
    LET t == [s EXCEPT !.tok.n = @ + 1, !.fields = SubjectNext(@)] IN
    IF truncated THEN Fail(t, "TruncatedFieldError") ELSE t

\* bb.on("field").
OnField(s, truncated) ==
    LET t == [s EXCEPT !.tok.n = @ + 1] IN
    IF truncated THEN Fail(t, "TruncatedFieldError")
    ELSE [t EXCEPT !.fields = SubjectNext(@)]

\* bb.on("partsLimit" | "filesLimit" | "fieldsLimit").
LimitError(kind) ==
    CASE kind = "partsLimit" -> "PartsLimitError"
      [] kind = "filesLimit" -> "FilesLimitError"
      [] kind = "fieldsLimit" -> "FieldsLimitError"

OnLimit(s, kind) == Fail([s EXCEPT !.tok.n = @ + 1], LimitError(kind))

\* bb.on("error").
\* req.unpipe(bb): a source left with no destination is paused.
Unpipe(s) ==
    [s EXCEPT !.dec.piped = FALSE,
              !.req = IF s.dec.piped /\ @ = "flowing" THEN "paused" ELSE @]

\* bb.on("error"), after the listener req.pipe(bb) put on bb has unpiped the request.
OnBusboyError(s) ==
    WithCause(s, Fail(Unpipe([s EXCEPT !.tok.n = @ + 1]), "MultipartError"),
              "BusboyError")

\* bb.on("finish"); missing: a required part of the handler's stream was not
\* in the body.
OnFinish(s, missing) ==
    SubscriberComplete(FieldsComplete(FilesComplete([s EXCEPT !.tok.finished = TRUE],
                                                    missing), missing))

\* -------------------------------------------------------------- states

Errors == {"PartsLimitError", "FilesLimitError", "FieldsLimitError",
           "TruncatedFileError", "TruncatedFieldError", "MultipartError",
           "MissingFilesError", "MissingFieldsError", "HandlerError"}

Init ==
    /\ cfg \in [bubbleErrors : BOOLEAN, autodrain : BOOLEAN, headersOk : BOOLEAN,
                hSubFiles : BOOLEAN, hForwards : {"none", "files", "fields"}]
    /\ cfg.hForwards = "files" => cfg.hSubFiles
    /\ cfg.hForwards = "fields" => ~cfg.hSubFiles
    /\ req = "paused"
    /\ dec = [sub |-> "idle", err |-> "none", cause |-> "none", log |-> <<>>,
              shouldEmitErrors |-> TRUE,
              doneSub |-> FALSE, bbListeners |-> FALSE, reqErrL |-> FALSE,
              piped |-> FALSE, teardownSet |-> FALSE, torn |-> FALSE]
    /\ files = NewSubject
    /\ fields = NewSubject
    /\ fs = <<>>
    /\ tok = [n |-> 0, cur |-> 0, finished |-> FALSE]
    /\ icp = [handler |-> "idle", hFilesSub |-> FALSE, hFieldsSub |-> FALSE,
              done |-> FALSE,
              drainSub |-> FALSE, reqFiles |-> FALSE, out |-> "open",
              outErr |-> "none"]
    /\ hist = [nFail |-> 0, lastFail |-> [set |-> FALSE, gate |-> FALSE, done |-> FALSE,
                                        live |-> FALSE],
               uncaught |-> FALSE,
               crashed |-> FALSE,
               pairFed |-> FALSE,
               nTorn |-> 0,
               found |-> FALSE]
    /\ ops = "none"

Alive == ~hist.crashed

\* The tokenizer is fed and its listeners are attached.
Parsing == Alive /\ req = "flowing" /\ dec.piped /\ dec.bbListeners /\ ~tok.finished

\* ------------------------------------------------------------- actions

\* The decoder's subscribe function, run when the interceptor's output is
\* subscribed, with what subscriber.next triggers in the interceptor: the tap
\* storing the channels, then switchMap subscribing next.handle() behind
\* tap({subscribe: drain}) and finalize(done).
\* busboy constructed; Subjects created; done signal subscribed; listeners on bb.
Attach(s) ==
    [s EXCEPT !.dec.shouldEmitErrors = TRUE, !.dec.doneSub = TRUE,
              !.dec.bbListeners = TRUE]

\* tap: req._files$ = files; req._fields$ = fields.
StoreChannels(s) == [s EXCEPT !.icp.reqFiles = TRUE]
InvokeHandlerAlwaysDrains(s) ==
    [s EXCEPT !.icp.drainSub = s.icp.reqFiles,
              !.icp.handler = "running",
              !.icp.hFilesSub = (s.icp.reqFiles /\ s.cfg.hSubFiles),
              !.icp.hFieldsSub = (s.icp.reqFiles /\ s.cfg.hForwards = "fields"),
              !.hist.found = s.icp.reqFiles]

\* switchMap subscribes next.handle() behind tap({ subscribe: drain }) and
\* finalize(done): the drain subscribes to the file channel, then the handler is
\* invoked and its decorators look the channels up on the request (found).
InvokeHandler(s) ==
    [s EXCEPT !.icp.drainSub = (s.icp.reqFiles /\ s.cfg.autodrain # FALSE),
              !.icp.handler = "running",
              !.icp.hFilesSub = (s.icp.reqFiles /\ s.cfg.hSubFiles),
              !.icp.hFieldsSub = (s.icp.reqFiles /\ s.cfg.hForwards = "fields"),
              !.hist.found = s.icp.reqFiles]

\* subscriber.next({ files, fields }) emitted by the decoder; pairFed notes
\* whether the request was already feeding the tokenizer at that moment.
PairNext(s) ==
    [s EXCEPT !.dec.sub = "open", !.dec.log = Append(@, "n"),
              !.hist.pairFed = (s.dec.piped \/ s.req # "paused")]

EmitPairHandlerFirst(s) == StoreChannels(InvokeHandler(PairNext(s)))

\* subscriber.next({files, fields}) and what it runs in the interceptor.
EmitPair(s) == InvokeHandler(StoreChannels(PairNext(s)))

\* req.on("error"), req.pipe(bb), req.resume(), and the teardown returned.
StartRequest(s) ==
    [s EXCEPT !.dec.reqErrL = TRUE, !.dec.piped = TRUE, !.dec.teardownSet = TRUE,
              !.req = "flowing"]

SubscribeOkFeedsFirst(s) == EmitPair(StartRequest(Attach(s)))

SubscribeOk(s) == StartRequest(EmitPair(Attach(s)))

SubscribeInitFailsFeeds(s) ==
    [StartRequest(s) EXCEPT !.dec.sub = "error", !.dec.err = "MultipartError",
                            !.dec.cause = "BusboyInitError", !.dec.log = <<"e">>,
                            !.icp.out = "error", !.icp.outErr = "MultipartError"]

\* busboy() throws: subscriber.error(new MultipartError(..., { cause: err })).
SubscribeInitFails(s) ==
    [s EXCEPT !.dec.sub = "error", !.dec.err = "MultipartError",
              !.dec.cause = "BusboyInitError", !.dec.log = <<"e">>,
              !.icp.out = "error", !.icp.outErr = "MultipartError"]

Subscribe ==
    /\ Alive /\ dec.sub = "idle" /\ icp.out = "open"
    /\ Commit(IF cfg.headersOk THEN SubscribeOk(St) ELSE SubscribeInitFails(St))

TokFile ==
    /\ Parsing /\ tok.cur = 0 /\ tok.n < MaxParts /\ Len(fs) < MaxFiles
    /\ Commit(OnFile(St))

\* Buffered bytes leave a file stream: to the data listener, or dropped when
\* none is attached.
Flush(f) ==
    [f EXCEPT !.buffered = 0,
              !.delivered = IF f.reader THEN @ + f.buffered ELSE @,
              !.discarded = IF f.reader THEN @ ELSE @ + f.buffered]

\* file.push(chunk): emitted inside push() when the stream is in flowing mode,
\* has been read before (sync is off), has a data listener and nothing
\* buffered; buffered otherwise, until the next tick of the stream.
Push(f) ==
    LET g == [f EXCEPT !.arrived = @ + 1, !.buffered = @ + 1] IN
    IF f.flow # "paused" /\ f.sync = "off" /\ f.reader /\ f.buffered = 0
    THEN Flush(g) ELSE g

\* file.push(null): a stream in flowing mode that has been read before reads
\* out what is buffered at once and schedules "end"; a paused stream, and one
\* never read yet, only records the end of data.
PushEof(f, truncated) ==
    LET g == [f EXCEPT !.eof = TRUE, !.trunc = truncated, !.sync = "over"] IN
    IF f.flow # "paused" /\ f.sync = "off"
    THEN [Flush(g) EXCEPT !.endTick = TRUE] ELSE g

\* The tick a push schedules (maybeReadMore): the first read(0) of a stream
\* whose data has not ended switches sync off.
ReadMoreTick(f) == [f EXCEPT !.sync = "off"]

\* Bytes the tokenizer has pushed into the first n file streams.
RECURSIVE BytesArrived(_, _)
BytesArrived(q, n) == IF n = 0 THEN 0 ELSE q[n].arrived + BytesArrived(q, n - 1)

\* The tokenizer pushes a byte of the current file part into its stream.
TokPush ==
    /\ Parsing /\ tok.cur # 0 /\ BytesArrived(fs, Len(fs)) < MaxBytes
    /\ Commit([St EXCEPT !.fs[tok.cur] = Push(@)])

\* The part ends: push(null), with the truncation flag the size limit gave it.
TokEof ==
    /\ Parsing /\ tok.cur # 0
    /\ \E truncated \in BOOLEAN :
          Commit([St EXCEPT !.fs[tok.cur] = PushEof(@, truncated),
                            !.tok.cur = 0])

TokField ==
    /\ Parsing /\ tok.cur = 0 /\ tok.n < MaxParts
    /\ \E truncated \in BOOLEAN : Commit(OnField(St, truncated))

TokLimit ==
    /\ Parsing /\ tok.cur = 0 /\ tok.n < MaxParts
    /\ \E kind \in {"partsLimit", "filesLimit", "fieldsLimit"} :
          Commit(OnLimit(St, kind))

TokError ==
    /\ Parsing /\ tok.cur = 0 /\ tok.n < MaxParts
    /\ Commit(OnBusboyError(St))

\* busboy finishes once the body has ended and every file stream has ended.
TokFinish ==
    /\ Parsing /\ tok.cur = 0
    /\ \A i \in 1..Len(fs) : fs[i].ended
    /\ \E missing \in BOOLEAN : Commit(OnFinish(St, missing))

\* One tick of a flowing file stream: buffered bytes go to the attached reader,
\* or are dropped when no data listener is attached; once the data has ended
\* and nothing is left, "end" is scheduled.
FlowTick(f) ==
    [Flush(f) EXCEPT !.flow = "flowing", !.endTick = (@ \/ f.eof),
                     !.sync = IF f.eof THEN @ ELSE "off"]

ReadMore(i) ==
    /\ Alive /\ i \in DOMAIN fs
    /\ fs[i].sync = "on" /\ fs[i].arrived > 0
    /\ Commit([St EXCEPT !.fs[i] = ReadMoreTick(@)])

Flow(i) ==
    /\ Alive /\ i \in DOMAIN fs
    /\ fs[i].flow = "scheduled" \/ (fs[i].flow = "flowing" /\ fs[i].buffered > 0)
    /\ Commit([St EXCEPT !.fs[i] = FlowTick(@)])

\* The file stream emits "end".
FileEnd(i) ==
    /\ Alive /\ i \in DOMAIN fs
    /\ fs[i].endTick /\ ~fs[i].ended
    /\ \E crash \in BOOLEAN : Commit(OnFileEnd(St, i, crash))

\* The handler attaches its reader (data listener or pipe) to a file it received,
\* with or without an error listener.
HandlerAttach(i) ==
    /\ Alive /\ i \in DOMAIN fs
    /\ fs[i].recv /\ ~fs[i].reader /\ ~fs[i].ended
    /\ \E withErr \in BOOLEAN :
          Commit([St EXCEPT !.fs[i] = Resume([@ EXCEPT !.reader = TRUE,
                                                       !.errL = withErr])])

HandlerComplete ==
    /\ Alive /\ icp.handler = "running"
    /\ Commit(HandlerCompleted(St))

HandlerThrow ==
    /\ Alive /\ icp.handler = "running"
    /\ Commit(HandlerErrored(St, "HandlerError"))

\* The consumer of the interceptor's output unsubscribes (request aborted).
Cancel ==
    /\ Alive /\ icp.out = "open" /\ dec.sub = "open"
    /\ Commit(InnerEnd(Teardown([St EXCEPT !.icp.out = "unsub"]), "cancelled"))

\* unsubscribe() on the interceptor's output: rxjs returns at once when the
\* subscription is already closed, otherwise it runs the chain's teardowns.
Unsubscribe(s) ==
    IF s.icp.out # "open" THEN s
    ELSE InnerEnd(Teardown([s EXCEPT !.icp.out = "unsub"]), "cancelled")

\* The consumer unsubscribes once more, or after the decoder's stream has ended.
CancelAgain ==
    /\ Alive /\ dec.sub \notin {"idle", "open"}
    /\ Commit(Unsubscribe(St))

\* The request byte source emits "error".
ReqError ==
    /\ Alive /\ dec.reqErrL /\ req # "errored" /\ ~tok.finished
    /\ Commit(WithCause(St, Fail([St EXCEPT !.req = "errored"], "MultipartError"),
                        "RequestError"))

Next ==
    \/ Subscribe
    \/ TokFile \/ TokPush \/ TokEof \/ TokField \/ TokLimit \/ TokError \/ TokFinish
    \/ \E i \in 1..MaxFiles : Flow(i)
    \/ \E i \in 1..MaxFiles : ReadMore(i)
    \/ \E i \in 1..MaxFiles : FileEnd(i)
    \/ \E i \in 1..MaxFiles : HandlerAttach(i)
    \/ HandlerComplete \/ HandlerThrow \/ Cancel \/ CancelAgain \/ ReqError

Spec == Init /\ [][Next]_vars

\* The tokenizer's own steps: the body arrives and is tokenized.
TokStep == TokFile \/ TokPush \/ TokEof \/ TokField \/ TokLimit \/ TokError \/ TokFinish

\* The event loop runs every scheduled tick: the subscription, the tokenizer's
\* writes while it is fed, each file stream's flow and end. The handler, the
\* consumer's cancellation and a request error are free to happen or not.
LiveSpec ==
    /\ Init /\ [][Next]_vars
    /\ WF_vars(Subscribe)
    /\ WF_vars(TokStep)
    /\ \A i \in 1..MaxFiles :
          WF_vars(Flow(i)) /\ WF_vars(ReadMore(i)) /\ WF_vars(FileEnd(i))

\* ------------------------------------------------------------ operators
\* filterFilesByFieldNames, validateRequiredFiles (files/operators.ts) and
\* validateRequiredFields (multipart-fields.operators.ts), each applied to an
\* upstream channel that emits parts and then completes or errors.

\* Entries of the argument list (required names or patterns).
MaxArgs == 2
\* Parts the upstream channel emits.
MaxInput == 2

\* Strings are sequences of characters, so that a prefix is computed.
PartNames == {<<>>, <<"a">>, <<"b">>, <<"a", "b">>, <<"^", "a">>}
ArgNames == {<<"a">>, <<"b">>, <<"^">>, <<"^", "a">>}
UpstreamErrors == {"PartsLimitError", "MultipartError"}

SeqsUpTo(S, n) == UNION {[1..k -> S] : k \in 0..n}
Range(q) == {q[k] : k \in DOMAIN q}

\* pattern.startsWith("^") / fieldName.startsWith(patternName).
StartsWith(str, prefix) ==
    /\ Len(prefix) <= Len(str)
    /\ SubSeq(str, 1, Len(prefix)) = prefix

\* pattern.slice(1).
Slice1(str) == IF Len(str) = 0 THEN str ELSE SubSeq(str, 2, Len(str))

parseFieldPattern(pattern) ==
    IF StartsWith(pattern, <<"^">>)
    THEN [fieldName |-> Slice1(pattern), startsWithMatch |-> TRUE]
    ELSE [fieldName |-> pattern, startsWithMatch |-> FALSE]

matchesFieldPattern(fieldName, pattern) ==
    LET p == parseFieldPattern(pattern) IN
    IF p.startsWithMatch THEN StartsWith(fieldName, p.fieldName)
    ELSE fieldName = p.fieldName

\* new Set(list): the distinct entries in insertion order.
RECURSIVE NewSet(_)
NewSet(list) ==
    IF list = <<>> THEN <<>>
    ELSE LET init == NewSet(SubSeq(list, 1, Len(list) - 1))
             last == list[Len(list)]
         IN  IF last \in Range(init) THEN init ELSE Append(init, last)

\* set.delete(x).
SetDelete(set, x) == LET Keep(y) == y # x IN SelectSeq(set, Keep)

Notif(k, name, err, list) == [k |-> k, name |-> name, err |-> err, list |-> list]
NextOf(name) == Notif("n", name, "none", <<>>)
CompleteOf == Notif("c", <<>>, "none", <<>>)
ErrorOf(err, list) == Notif("e", <<>>, err, list)

\* The upstream channel hands the operator one more part.
Received(o, name, resumed) ==
    [o EXCEPT !.inp = Append(@, name), !.resumed = Append(@, resumed)]

FilterFilesResumesAll(o, name) ==
    LET r == Received(o, name, TRUE) IN
    IF Len(o.args) # 0 /\ name \in Range(o.args)
    THEN [r EXCEPT !.out = Append(@, NextOf(name))]
    ELSE r

\* filterFilesByFieldNames: tap (resume the unwanted stream), then filter.
FilterFilesNext(o, name) ==
    IF Len(o.args) = 0
    THEN Received(o, name, TRUE)
    ELSE LET wanted == name \in Range(o.args)
             r == Received(o, name, ~wanted)
         IN  IF wanted THEN [r EXCEPT !.out = Append(@, NextOf(name))] ELSE r

ValidateFilesNextKeeps(o, name) ==
    [Received(o, name, FALSE) EXCEPT !.out = Append(@, NextOf(name))]

\* validateRequiredFiles: tap (remainingRequired.delete), then subscriber.next.
ValidateFilesNext(o, name) ==
    [Received(o, name, FALSE) EXCEPT !.remaining = SetDelete(@, name),
                                     !.out = Append(@, NextOf(name))]

\* validateRequiredFiles: complete handler (the source itself when nothing is required).
ValidateFilesComplete(o) ==
    IF Len(o.args) = 0 THEN [o EXCEPT !.up = "complete", !.out = Append(@, CompleteOf)]
    ELSE IF Len(o.remaining) > 0
    THEN [o EXCEPT !.up = "complete",
                   !.out = Append(@, ErrorOf("MissingFilesError", o.remaining))]
    ELSE [o EXCEPT !.up = "complete", !.out = Append(@, CompleteOf)]

ValidateFilesErrorMasks(o, e) ==
    IF Len(o.remaining) > 0
    THEN [o EXCEPT !.up = "error", !.upErr = e,
                   !.out = Append(@, ErrorOf("MissingFilesError", o.remaining))]
    ELSE [o EXCEPT !.up = "error", !.upErr = e, !.out = Append(@, ErrorOf(e, <<>>))]

\* validateRequiredFiles: error handler.
ValidateFilesError(o, e) ==
    [o EXCEPT !.up = "error", !.upErr = e, !.out = Append(@, ErrorOf(e, <<>>))]

ValidateFieldsNextFirstOnly(o, name) ==
    LET hits == {k \in DOMAIN o.args : matchesFieldPattern(name, o.args[k])}
        first == {k \in hits : \A j \in hits : k <= j}
    IN  [Received(o, name, FALSE) EXCEPT
            !.matched = @ \cup {o.args[k] : k \in first},
            !.out = Append(@, NextOf(name))]

\* validateRequiredFields: tap (add every matching required pattern), then next.
ValidateFieldsNext(o, name) ==
    [Received(o, name, FALSE) EXCEPT
        !.matched = @ \cup {p \in Range(o.args) : matchesFieldPattern(name, p)},
        !.out = Append(@, NextOf(name))]

\* validateRequiredFields: complete handler.
ValidateFieldsComplete(o) ==
    LET Missing(p) == p \notin o.matched
        missingRequired == SelectSeq(o.args, Missing)
    IN  IF Len(missingRequired) > 0
        THEN [o EXCEPT !.up = "complete",
                       !.out = Append(@, ErrorOf("MissingFieldsError", missingRequired))]
        ELSE [o EXCEPT !.up = "complete", !.out = Append(@, CompleteOf)]

\* validateRequiredFields: error handler.
ValidateFieldsError(o, e) ==
    [o EXCEPT !.up = "error", !.upErr = e, !.out = Append(@, ErrorOf(e, <<>>))]

\* Field names and patterns that differ only in case, for the field operators.
FieldNames == PartNames \cup {<<"A">>}
FieldPatterns == ArgNames \cup {<<"^", "A">>}

FilterFieldsNextExactOnly(o, name) ==
    LET r == Received(o, name, FALSE) IN
    IF \E k \in DOMAIN o.args : name = o.args[k]
    THEN [r EXCEPT !.out = Append(@, NextOf(name))]
    ELSE r

\* filterFieldsByPatterns: filter(patterns.some(matchesFieldPattern)).
FilterFieldsNext(o, name) ==
    LET r == Received(o, name, FALSE) IN
    IF \E k \in DOMAIN o.args : matchesFieldPattern(name, o.args[k])
    THEN [r EXCEPT !.out = Append(@, NextOf(name))]
    ELSE r

\* filter and tap pass the upstream's completion and error through.
PassComplete(o) == [o EXCEPT !.up = "complete", !.out = Append(@, CompleteOf)]
PassError(o, e) ==
    [o EXCEPT !.up = "error", !.upErr = e, !.out = Append(@, ErrorOf(e, <<>>))]

\* An operator freshly subscribed to its source.
NewOp(op, args) ==
    [op |-> op, args |-> args, inp |-> <<>>, resumed |-> <<>>,
     up |-> "open", upErr |-> "none", out |-> <<>>,
     remaining |-> NewSet(args), matched |-> {}]

\* ----------------------------------------------------------- decorators
\* multipartFilesFactory and multipartFieldsFactory: the options are split into
\* required and optional entries and the channel is piped through the filter
\* (all entries) and the validation (required entries).

\* Names used in decorator options: a plain name and a '^' pattern.
EntryNames == {<<"a">>, <<"^", "a">>}
\* The forms of one array entry: 'name', ['name'], ['name', true], ['name', false].
EntryForms == {"bare", "single", "true", "false"}
Entries == [name : EntryNames, form : EntryForms]
DecoratorOptions ==
    {[t |-> "undefined", v |-> <<>>]}
    \cup {[t |-> "string", v |-> <<[name |-> n, form |-> "bare"]>>] : n \in EntryNames}
    \cup {[t |-> "array", v |-> v] : v \in SeqsUpTo(Entries, MaxArgs)}

IsRequiredEntryPairsOnly(v) == v.form = "bare" \/ v.form = "true"

\* isString(v) || v[1] !== false
IsRequiredEntry(v) == v.form = "bare" \/ v.form # "false"
\* isArray(v) && v[1] === false
IsOptionalEntry(v) == v.form # "bare" /\ v.form = "false"

EntryName(q) == [k \in DOMAIN q |-> q[k].name]

RequiredOf(options) ==
    IF options.t = "string" THEN <<options.v[1].name>>
    ELSE EntryName(SelectSeq(options.v, IsRequiredEntry))

OptionalOf(options) ==
    IF options.t = "string" THEN <<>>
    ELSE EntryName(SelectSeq(options.v, IsOptionalEntry))

\* The decorator's stream: for undefined options the channel itself, otherwise
\* the channel behind the filter (f) and the validation (v).
NewFactory(op, kind, options) ==
    [op |-> op, options |-> options, inp |-> <<>>, up |-> "open", upErr |-> "none",
     f |-> NewOp(kind, RequiredOf(options) \o OptionalOf(options)),
     v |-> NewOp(kind, RequiredOf(options)),
     out |-> <<>>]

Piped(o) == o.options.t # "undefined"

FilesFactoryNext(o, name) ==
    LET f1 == FilterFilesNext(o.f, name)
        v1 == IF Len(f1.out) > Len(o.f.out) THEN ValidateFilesNext(o.v, name) ELSE o.v
    IN  IF Piped(o)
        THEN [o EXCEPT !.inp = Append(@, name), !.f = f1, !.v = v1, !.out = v1.out]
        ELSE [o EXCEPT !.inp = Append(@, name), !.out = Append(@, NextOf(name))]

FilesFactoryComplete(o) ==
    LET v1 == ValidateFilesComplete(o.v) IN
    IF Piped(o)
    THEN [o EXCEPT !.up = "complete", !.f = PassComplete(@), !.v = v1, !.out = v1.out]
    ELSE [o EXCEPT !.up = "complete", !.out = Append(@, CompleteOf)]

FilesFactoryError(o, e) ==
    LET v1 == ValidateFilesError(o.v, e) IN
    IF Piped(o)
    THEN [o EXCEPT !.up = "error", !.upErr = e, !.f = PassError(@, e), !.v = v1,
                   !.out = v1.out]
    ELSE [o EXCEPT !.up = "error", !.upErr = e, !.out = Append(@, ErrorOf(e, <<>>))]

FieldsFactoryNext(o, name) ==
    LET f1 == FilterFieldsNext(o.f, name)
        v1 == IF Len(f1.out) > Len(o.f.out) THEN ValidateFieldsNext(o.v, name) ELSE o.v
    IN  IF Piped(o)
        THEN [o EXCEPT !.inp = Append(@, name), !.f = f1, !.v = v1, !.out = v1.out]
        ELSE [o EXCEPT !.inp = Append(@, name), !.out = Append(@, NextOf(name))]

FieldsFactoryComplete(o) ==
    LET v1 == ValidateFieldsComplete(o.v) IN
    IF Piped(o)
    THEN [o EXCEPT !.up = "complete", !.f = PassComplete(@), !.v = v1, !.out = v1.out]
    ELSE [o EXCEPT !.up = "complete", !.out = Append(@, CompleteOf)]

FieldsFactoryError(o, e) ==
    LET v1 == ValidateFieldsError(o.v, e) IN
    IF Piped(o)
    THEN [o EXCEPT !.up = "error", !.upErr = e, !.f = PassError(@, e), !.v = v1,
                   !.out = v1.out]
    ELSE [o EXCEPT !.up = "error", !.upErr = e, !.out = Append(@, ErrorOf(e, <<>>))]

\* ------------------------------------------- several decorated file streams
\* One request whose file channel is observed, in subscription order, by the
\* interceptor's drain pass and by two decorated streams, @MultipartFiles(names)
\* with every name required: the channel behind the filter (f) and the
\* validation (v). Each stream is read by its own consumer and the consumers'
\* results are merged, as in the example controller.

StreamNamesA == {<<<<"a">>>>, <<<<"a">>, <<"b">>>>}
StreamNamesB == {<<<<"b">>>>, <<<<"a">>>>, <<>>}

\* multipartFilesFactory for a list of plain names, subscribed by merge().
NewDecorated(names) ==
    [f |-> NewOp("filterFiles", names), v |-> NewOp("validateFiles", names),
     out |-> <<>>, sub |-> TRUE]

\* files.next(part) reaching one decorated stream: the filter, then the validation.
DecoratedNext(x, name) ==
    LET f1 == FilterFilesNext(x.f, name)
        v1 == IF Len(f1.out) > Len(x.f.out) THEN ValidateFilesNext(x.v, name) ELSE x.v
    IN  IF x.sub THEN [x EXCEPT !.f = f1, !.v = v1, !.out = v1.out] ELSE x

\* files.complete() reaching one decorated stream.
DecoratedComplete(x) ==
    LET v1 == ValidateFilesComplete(x.v) IN
    IF x.sub THEN [x EXCEPT !.f = PassComplete(@), !.v = v1, !.out = v1.out] ELSE x

\* files.error(e) reaching one decorated stream.
DecoratedError(x, e) ==
    LET v1 == ValidateFilesError(x.v, e) IN
    IF x.sub THEN [x EXCEPT !.f = PassError(@, e), !.v = v1, !.out = v1.out] ELSE x

\* The stream has ended with an error.
DecoratedFailed(x) == Len(x.out) > 0 /\ x.out[Len(x.out)].k = "e"

\* merge(): an error of one stream ends the merged result, which unsubscribes
\* the other stream before the channel's notification reaches it.
MergeUnsubscribes(x) == [x EXCEPT !.sub = FALSE]

NewShared(namesA, namesB, autodrain) ==
    [op |-> "sharedFiles", autodrain |-> autodrain, inp |-> <<>>,
     up |-> "open", upErr |-> "none",
     a |-> NewDecorated(namesA), b |-> NewDecorated(namesB),
     initiators |-> <<>>]

\* Who starts consuming the part's byte source while files.next(part) runs:
\* the drain's file.resume(), each filter's stream.resume(), and the consumer
\* of each stream the part is delivered to (pipeline(file, buffer)).
SharedNext(o, name) ==
    LET a1 == DecoratedNext(o.a, name)
        b1 == DecoratedNext(o.b, name)
        who == (IF o.autodrain THEN {"drain"} ELSE {})
               \cup (IF a1.f.resumed[Len(a1.f.resumed)] THEN {"filterA"} ELSE {})
               \cup (IF Len(a1.out) > Len(o.a.out) THEN {"consumerA"} ELSE {})
               \cup (IF b1.f.resumed[Len(b1.f.resumed)] THEN {"filterB"} ELSE {})
               \cup (IF Len(b1.out) > Len(o.b.out) THEN {"consumerB"} ELSE {})
    IN  [o EXCEPT !.inp = Append(@, name), !.a = a1, !.b = b1,
                  !.initiators = Append(@, who)]

\* files.complete(): the first stream's observer runs first; when it ends with
\* MissingFilesError the second stream is unsubscribed and hears nothing.
SharedComplete(o) ==
    LET a1 == DecoratedComplete(o.a)
        b1 == IF DecoratedFailed(a1) THEN MergeUnsubscribes(o.b)
              ELSE DecoratedComplete(o.b)
    IN  [o EXCEPT !.up = "complete", !.a = a1, !.b = b1]

\* files.error(e): the first stream forwards it, the merged result ends and the
\* second stream is unsubscribed.
SharedError(o, e) ==
    LET a1 == DecoratedError(o.a, e)
        b1 == IF DecoratedFailed(a1) THEN MergeUnsubscribes(o.b)
              ELSE DecoratedError(o.b, e)
    IN  [o EXCEPT !.up = "error", !.upErr = e, !.a = a1, !.b = b1]

\* The main model's variables, unused by the specifications of pure functions.
MainIdle ==
    /\ cfg = "none" /\ req = "none" /\ dec = "none" /\ files = "none"
    /\ fields = "none" /\ fs = "none" /\ tok = "none" /\ icp = "none"
    /\ hist = "none"

\* The operator is built and subscribed; nothing has been emitted.
OpsInit ==
    /\ \/ \E op \in {"filterFiles", "validateFiles", "validateFields"},
             args \in SeqsUpTo(ArgNames, MaxArgs) : ops = NewOp(op, args)
       \/ \E args \in SeqsUpTo(FieldPatterns, MaxArgs) : ops = NewOp("filterFields", args)
       \/ \E options \in DecoratorOptions :
             \/ ops = NewFactory("filesFactory", "filterFiles", options)
             \/ ops = NewFactory("fieldsFactory", "filterFields", options)
       \/ \E namesA \in StreamNamesA, namesB \in StreamNamesB, autodrain \in BOOLEAN :
             ops = NewShared(namesA, namesB, autodrain)
    /\ MainIdle

OpsStep(o) ==
    /\ ops' = o
    /\ UNCHANGED <<cfg, req, dec, files, fields, fs, tok, icp, hist>>

OpsOpen(op) == ops.op = op /\ ops.up = "open"

FilterFilesPart ==
    /\ OpsOpen("filterFiles") /\ Len(ops.inp) < MaxInput
    /\ \E name \in PartNames : OpsStep(FilterFilesNext(ops, name))

\* filter passes the upstream's completion or error through.
FilterFilesEnd ==
    /\ OpsOpen("filterFiles")
    /\ \/ OpsStep([ops EXCEPT !.up = "complete", !.out = Append(@, CompleteOf)])
       \/ \E e \in UpstreamErrors :
             OpsStep([ops EXCEPT !.up = "error", !.upErr = e,
                                 !.out = Append(@, ErrorOf(e, <<>>))])

ValidateFilesPart ==
    /\ OpsOpen("validateFiles") /\ Len(ops.inp) < MaxInput
    /\ \E name \in PartNames : OpsStep(ValidateFilesNext(ops, name))

ValidateFilesDone ==
    /\ OpsOpen("validateFiles")
    /\ OpsStep(ValidateFilesComplete(ops))

ValidateFilesFail ==
    /\ OpsOpen("validateFiles")
    /\ \E e \in UpstreamErrors : OpsStep(ValidateFilesError(ops, e))

ValidateFieldsPart ==
    /\ OpsOpen("validateFields") /\ Len(ops.inp) < MaxInput
    /\ \E name \in PartNames : OpsStep(ValidateFieldsNext(ops, name))

ValidateFieldsDone ==
    /\ OpsOpen("validateFields")
    /\ OpsStep(ValidateFieldsComplete(ops))

ValidateFieldsFail ==
    /\ OpsOpen("validateFields")
    /\ \E e \in UpstreamErrors : OpsStep(ValidateFieldsError(ops, e))

FilterFieldsPart ==
    /\ OpsOpen("filterFields") /\ Len(ops.inp) < MaxInput
    /\ \E name \in FieldNames : OpsStep(FilterFieldsNext(ops, name))

FilterFieldsEnd ==
    /\ OpsOpen("filterFields")
    /\ \/ OpsStep(PassComplete(ops))
       \/ \E e \in UpstreamErrors : OpsStep(PassError(ops, e))

FilesFactoryPart ==
    /\ OpsOpen("filesFactory") /\ Len(ops.inp) < MaxInput
    /\ \E name \in PartNames : OpsStep(FilesFactoryNext(ops, name))

FilesFactoryEnd ==
    /\ OpsOpen("filesFactory")
    /\ \/ OpsStep(FilesFactoryComplete(ops))
       \/ \E e \in UpstreamErrors : OpsStep(FilesFactoryError(ops, e))

FieldsFactoryPart ==
    /\ OpsOpen("fieldsFactory") /\ Len(ops.inp) < MaxInput
    /\ \E name \in PartNames : OpsStep(FieldsFactoryNext(ops, name))

FieldsFactoryEnd ==
    /\ OpsOpen("fieldsFactory")
    /\ \/ OpsStep(FieldsFactoryComplete(ops))
       \/ \E e \in UpstreamErrors : OpsStep(FieldsFactoryError(ops, e))

SharedPart ==
    /\ OpsOpen("sharedFiles") /\ Len(ops.inp) < MaxInput
    /\ \E name \in PartNames : OpsStep(SharedNext(ops, name))

SharedEnd ==
    /\ OpsOpen("sharedFiles")
    /\ \/ OpsStep(SharedComplete(ops))
       \/ \E e \in UpstreamErrors : OpsStep(SharedError(ops, e))

OpsNext ==
    \/ FilterFilesPart \/ FilterFilesEnd
    \/ ValidateFilesPart \/ ValidateFilesDone \/ ValidateFilesFail
    \/ ValidateFieldsPart \/ ValidateFieldsDone \/ ValidateFieldsFail
    \/ FilterFieldsPart \/ FilterFieldsEnd
    \/ FilesFactoryPart \/ FilesFactoryEnd
    \/ FieldsFactoryPart \/ FieldsFactoryEnd
    \/ SharedPart \/ SharedEnd

OpsSpec == OpsInit /\ [][OpsNext]_vars

\* ------------------------------------------------- associative field names
\* parseAssociations scans the field name one character per loop iteration;
\* associateFields annotates the field when the scan returns a result.

\* Longest field name scanned.
MaxNameLen == 7
Chars == {"a", "b", "[", "]"}

NewScan(name) ==
    [op |-> "parseAssociations", name |-> name, i |-> 0, associations |-> <<>>,
     basename |-> <<>>, buffer |-> <<>>, inBracket |-> FALSE, result |-> "running",
     field |-> [name |-> name, isAssociative |-> FALSE, basename |-> <<>>,
                associations |-> <<>>]]

\* associateFields: the map callback on what parseAssociations returned.
Unmodified(p) == [p EXCEPT !.result = "undefined"]
Annotated(p, basename) ==
    [p EXCEPT !.result = "parsed", !.basename = basename,
              !.field = [name |-> p.name, isAssociative |-> TRUE,
                         basename |-> basename, associations |-> p.associations]]

\* if (!len) return undefined, before the loop.
ScanEmpty(p) == Unmodified(p)

ScanCharKeepsNested(p) ==
    LET char == p.name[p.i + 1]
        q == [p EXCEPT !.i = @ + 1]
    IN  IF char = "["
        THEN [q EXCEPT !.basename = IF p.basename = <<>> THEN p.buffer ELSE @,
                       !.buffer = <<>>, !.inBracket = TRUE]
        ELSE IF char = "]"
        THEN IF ~p.inBracket THEN Unmodified(q)
             ELSE [q EXCEPT !.associations = Append(@, p.buffer), !.buffer = <<>>,
                            !.inBracket = FALSE]
        ELSE [q EXCEPT !.buffer = Append(@, char)]

\* One iteration of the loop over the characters.
ScanChar(p) ==
    LET char == p.name[p.i + 1]
        q == [p EXCEPT !.i = @ + 1]
    IN  IF char = "["
        THEN IF ~p.inBracket
             THEN [q EXCEPT !.basename = IF p.basename = <<>> THEN p.buffer ELSE @,
                            !.buffer = <<>>, !.inBracket = TRUE]
             ELSE Unmodified(q)
        ELSE IF char = "]"
        THEN IF ~p.inBracket THEN Unmodified(q)
             ELSE [q EXCEPT !.associations = Append(@, p.buffer), !.buffer = <<>>,
                            !.inBracket = FALSE]
        ELSE [q EXCEPT !.buffer = Append(@, char)]

\* After the loop: unclosed bracket, late basename, no association.
ScanEnd(p) ==
    IF p.inBracket THEN Unmodified(p)
    ELSE IF Len(p.associations) = 0
    THEN Unmodified([p EXCEPT !.basename = IF @ = <<>> THEN p.buffer ELSE @])
    ELSE Annotated(p, IF p.basename = <<>> THEN p.buffer ELSE p.basename)

ParseInit ==
    /\ \E name \in SeqsUpTo(Chars, MaxNameLen) : ops = NewScan(name)
    /\ MainIdle

Scanning == ops.result = "running"

ParseEmpty ==
    /\ Scanning /\ Len(ops.name) = 0
    /\ OpsStep(ScanEmpty(ops))

ParseChar ==
    /\ Scanning /\ ops.i < Len(ops.name)
    /\ OpsStep(ScanChar(ops))

ParseEnd ==
    /\ Scanning /\ Len(ops.name) > 0 /\ ops.i = Len(ops.name)
    /\ OpsStep(ScanEnd(ops))

ParseNext == ParseEmpty \/ ParseChar \/ ParseEnd

ParseSpec == ParseInit /\ [][ParseNext]_vars

\* ---------------------------------------------------- exception filter
\* MultipartExceptionFilter.catch applied to each error the library constructs,
\* in an HTTP host and in the other host types.

LimitValues == {"1", "2", "Infinity"}
InternalMessages ==
    {"Failed to initialize Busboy", "Busboy processing error", "Request stream errored"}
HostTypes == {"http", "rpc", "ws"}

\* core/errors.ts: the constructors; the class name and the message.
NewError(class, text, arg) == [class |-> class, message |-> <<text, arg>>]
NewPartsLimitError(limit) == NewError("PartsLimitError", "Parts limit reached", limit)
NewFilesLimitError(limit) == NewError("FilesLimitError", "Files limit reached", limit)
NewFieldsLimitError(limit) == NewError("FieldsLimitError", "Fields limit reached", limit)
NewTruncatedFileError(fieldname) ==
    NewError("TruncatedFileError", "File field was truncated during upload", fieldname)
NewTruncatedFieldError(fieldname) ==
    NewError("TruncatedFieldError", "Field was truncated during upload", fieldname)
NewMissingFilesError(fieldnames) == NewError("MissingFilesError", "Missing files", fieldnames)
NewMissingFieldsError(fieldnames) ==
    NewError("MissingFieldsError", "Missing fields", fieldnames)
NewMultipartError(message) == NewError("MultipartError", message, <<>>)

Exceptions ==
    {NewPartsLimitError(l) : l \in LimitValues}
    \cup {NewFilesLimitError(l) : l \in LimitValues}
    \cup {NewFieldsLimitError(l) : l \in LimitValues}
    \cup {NewTruncatedFileError(n) : n \in PartNames}
    \cup {NewTruncatedFieldError(n) : n \in PartNames}
    \cup {NewMissingFilesError(q) : q \in SeqsUpTo(ArgNames, MaxArgs)}
    \cup {NewMissingFieldsError(q) : q \in SeqsUpTo(ArgNames, MaxArgs)}
    \cup {NewMultipartError(m) : m \in InternalMessages}

\* exception instanceof C: every error class extends MultipartError directly.
InstanceOf(exception, class) == exception.class = class \/ class = "MultipartError"

\* @nestjs/common: the HTTP exceptions and their getStatus().
HttpExceptionOf(name, status, exception) ==
    [name |-> name, status |-> status, message |-> exception.message,
     cause |-> exception]

ToHttpExceptionTruncatedTooLarge(exception) ==
    IF \/ InstanceOf(exception, "PartsLimitError")
       \/ InstanceOf(exception, "FilesLimitError")
       \/ InstanceOf(exception, "FieldsLimitError")
       \/ InstanceOf(exception, "TruncatedFileError")
    THEN HttpExceptionOf("PayloadTooLargeException", 413, exception)
    ELSE IF \/ InstanceOf(exception, "TruncatedFieldError")
            \/ InstanceOf(exception, "MissingFilesError")
            \/ InstanceOf(exception, "MissingFieldsError")
    THEN HttpExceptionOf("BadRequestException", 400, exception)
    ELSE HttpExceptionOf("InternalServerErrorException", 500, exception)

\* catch: the if / else if / else over the error classes.
ToHttpException(exception) ==
    IF \/ InstanceOf(exception, "PartsLimitError")
       \/ InstanceOf(exception, "FilesLimitError")
       \/ InstanceOf(exception, "FieldsLimitError")
    THEN HttpExceptionOf("PayloadTooLargeException", 413, exception)
    ELSE IF \/ InstanceOf(exception, "TruncatedFileError")
            \/ InstanceOf(exception, "TruncatedFieldError")
            \/ InstanceOf(exception, "MissingFilesError")
            \/ InstanceOf(exception, "MissingFieldsError")
    THEN HttpExceptionOf("BadRequestException", 400, exception)
    ELSE HttpExceptionOf("InternalServerErrorException", 500, exception)

NoResponse == [status |-> 0, json |-> <<>>]

\* catch(exception, host)
CatchException(c) ==
    IF c.host # "http"
    THEN [c EXCEPT !.state = "thrown", !.thrown = <<c.exception>>]
    ELSE LET httpException == ToHttpException(c.exception) IN
         [c EXCEPT !.state = "responded",
                   !.res = [status |-> httpException.status,
                            json |-> <<[statusCode |-> httpException.status,
                                        message |-> httpException.message,
                                        error |-> httpException.name]>>]]

CatchInit ==
    /\ \E exception \in Exceptions, host \in HostTypes :
          ops = [op |-> "catch", exception |-> exception, host |-> host,
                 state |-> "caught", thrown |-> <<>>, res |-> NoResponse]
    /\ MainIdle

Catch ==
    /\ ops.state = "caught"
    /\ OpsStep(CatchException(ops))

CatchNext == Catch

CatchSpec == CatchInit /\ [][CatchNext]_vars

\* ------------------------------------------------- published parts
\* The decoder's handlers with the parts' contents: the tokenizer reports the
\* parts of the body one after the other, the handlers publish them on the
\* channels of a subscriber that stays attached.

\* Tokenizer events of one request.
MaxEvents == 3

FieldEvents ==
    {[kind |-> "field", name |-> nv[1], value |-> nv[2], truncated |-> tr] :
        nv \in {<<"a", "x">>, <<"a", "y">>, <<"b", "x">>}, tr \in BOOLEAN}
FileEvents ==
    {[kind |-> "file", name |-> n, value |-> "stream", truncated |-> tr] :
        n \in {"a", "b"}, tr \in BOOLEAN}
LimitEvents ==
    {[kind |-> k, name |-> "none", value |-> "none", truncated |-> FALSE] :
        k \in {"partsLimit", "filesLimit", "fieldsLimit"}}

ChannelNextLatestOnly(o, ch, item) ==
    IF ch = "files"
    THEN [o EXCEPT !.files = SubjectNext(@),
                   !.fileItems = IF o.files.state = "open" /\ ~o.late.attached
                                 THEN Append(@, item) ELSE @,
                   !.late.fileItems = IF o.files.state = "open" /\ o.late.attached
                                      THEN Append(@, item) ELSE @]
    ELSE [o EXCEPT !.fields = SubjectNext(@),
                   !.fieldItems = IF o.fields.state = "open" /\ ~o.late.attached
                                  THEN Append(@, item) ELSE @,
                   !.late.fieldItems = IF o.fields.state = "open" /\ o.late.attached
                                       THEN Append(@, item) ELSE @]

\* Subject.next(item): the item goes to every subscriber attached at that
\* moment, the one subscribed on receipt of the pair and a later one alike.
ChannelNext(o, ch, item) ==
    IF ch = "files"
    THEN [o EXCEPT !.files = SubjectNext(@),
                   !.fileItems = IF o.files.state = "open" THEN Append(@, item) ELSE @,
                   !.late.fileItems = IF o.files.state = "open" /\ o.late.attached
                                      THEN Append(@, item) ELSE @]
    ELSE [o EXCEPT !.fields = SubjectNext(@),
                   !.fieldItems = IF o.fields.state = "open" THEN Append(@, item) ELSE @,
                   !.late.fieldItems = IF o.fields.state = "open" /\ o.late.attached
                                       THEN Append(@, item) ELSE @]

\* A consumer subscribes to both channels after the pair was delivered: a
\* Subject replays nothing, what was published before is not seen.
LateSubscribe(o) ==
    [o EXCEPT !.late.attached = TRUE,
              !.late.fromFiles = Len(o.fileItems),
              !.late.fromFields = Len(o.fieldItems)]

\* fail(err) and, when it publishes, the teardown run by subscriber.error.
PartsFail(o, e) ==
    IF ~o.shouldEmitErrors THEN o
    ELSE IF o.sub # "open"
    THEN [o EXCEPT !.files = SubjectError(@, e), !.fields = SubjectError(@, e)]
    ELSE [o EXCEPT !.files = SubjectError(@, e), !.fields = SubjectError(@, e),
                   !.sub = "error", !.err = e, !.listening = FALSE]

PartsOnFieldReversed(o, ev) ==
    LET h == [o EXCEPT !.emitted = Append(@, ev)] IN
    IF ev.truncated THEN PartsFail(h, "TruncatedFieldError")
    ELSE [h EXCEPT !.fields = SubjectNext(@),
                   !.fieldItems = <<[name |-> ev.name, value |-> ev.value]>> \o @]

\* bb.on("field"): wrap name and value, fail on truncation, else publish.
PartsOnField(o, ev) ==
    LET h == [o EXCEPT !.emitted = Append(@, ev)] IN
    IF ev.truncated THEN PartsFail(h, "TruncatedFieldError")
    ELSE ChannelNext(h, "fields", [name |-> ev.name, value |-> ev.value])

\* bb.on("file"): wrap the stream with its field name and publish it.
PartsOnFile(o, ev) ==
    ChannelNext([o EXCEPT !.emitted = Append(@, ev), !.ended = Append(@, FALSE)],
                "files", [fieldname |-> ev.name])

\* bb.on("partsLimit" | "filesLimit" | "fieldsLimit").
PartsOnLimit(o, ev) == PartsFail([o EXCEPT !.emitted = Append(@, ev)], LimitError(ev.kind))

\* incomingFile.once("end"): a truncated file fails the parse when the file
\* stream has an error listener (emit("error") throws otherwise).
PartsOnFileEnd(o, i, truncated, errListener) ==
    LET e == [o EXCEPT !.ended[i] = TRUE] IN
    IF truncated /\ errListener THEN PartsFail(e, "TruncatedFileError") ELSE e

PartsOnFinishFilesOnly(o) ==
    [o EXCEPT !.finished = TRUE, !.files = SubjectComplete(@),
              !.sub = "complete", !.listening = FALSE]

\* bb.on("finish"): complete both channels and the stream (teardown follows).
PartsOnFinish(o) ==
    [o EXCEPT !.finished = TRUE, !.files = SubjectComplete(@),
              !.fields = SubjectComplete(@),
              !.sub = "complete", !.listening = FALSE]

PartsInit ==
    /\ \E bubbleErrors \in BOOLEAN :
          ops = [op |-> "publish", bubbleErrors |-> bubbleErrors, emitted |-> <<>>,
                 files |-> NewSubject, fields |-> NewSubject,
                 fileItems |-> <<>>, fieldItems |-> <<>>, ended |-> <<>>,
                 late |-> [attached |-> FALSE, fromFiles |-> 0, fromFields |-> 0,
                           fileItems |-> <<>>, fieldItems |-> <<>>],
                 sub |-> "open", err |-> "none", listening |-> TRUE,
                 shouldEmitErrors |-> TRUE, done |-> FALSE,
                 bodyEnded |-> FALSE, finished |-> FALSE]
    /\ MainIdle

\* The tokenizer is fed and its listeners are attached.
PartsParsing ==
    ops.listening /\ ~ops.bodyEnded /\ Len(ops.emitted) < MaxEvents

PartsField ==
    /\ PartsParsing
    /\ \E ev \in FieldEvents : OpsStep(PartsOnField(ops, ev))

PartsFile ==
    /\ PartsParsing
    /\ \E ev \in FileEvents : OpsStep(PartsOnFile(ops, ev))

PartsLimit ==
    /\ PartsParsing
    /\ \E ev \in LimitEvents : OpsStep(PartsOnLimit(ops, ev))

\* The file events of the body, in the order reported.
FilesOf(emitted) == LET IsFile(ev) == ev.kind = "file" IN SelectSeq(emitted, IsFile)

\* A file's byte source reaches its end (a reader or a drain consumed it).
PartsFileEnd ==
    \E i \in DOMAIN ops.ended :
        /\ ~ops.ended[i]
        /\ \E errListener \in BOOLEAN :
              OpsStep(PartsOnFileEnd(ops, i, FilesOf(ops.emitted)[i].truncated,
                                     errListener))

\* The last byte of the body has been tokenized.
PartsBodyEnd ==
    /\ ops.listening /\ ~ops.bodyEnded
    /\ OpsStep([ops EXCEPT !.bodyEnded = TRUE])

\* The handler's stream ends: the done signal's complete callback.
PartsDone ==
    /\ ~ops.done
    /\ OpsStep([ops EXCEPT !.done = TRUE,
                           !.shouldEmitErrors =
                               IF ops.sub = "open" THEN ops.bubbleErrors # TRUE ELSE @])

\* busboy finishes once the body has ended and every file stream has ended.
PartsFinish ==
    /\ ops.listening /\ ops.bodyEnded /\ ~ops.finished
    /\ \A i \in DOMAIN ops.ended : ops.ended[i]
    /\ OpsStep(PartsOnFinish(ops))

PartsLate ==
    /\ ops.sub = "open" /\ ~ops.late.attached
    /\ OpsStep(LateSubscribe(ops))

PartsNext ==
    \/ PartsField \/ PartsFile \/ PartsLimit \/ PartsFileEnd
    \/ PartsBodyEnd \/ PartsDone \/ PartsFinish \/ PartsLate

PartsSpec == PartsInit /\ [][PartsNext]_vars

\* ------------------------------------------------------ bufferFiles
\* files$.pipe(bufferFiles()): mergeMap reads every file part into one buffer,
\* the parts being read concurrently.

\* Source file parts of one run and chunks their streams deliver in all.
MaxSourceFiles == 2
MaxChunks == 2

FileMetas ==
    {[fieldname |-> "doc1", filename |-> "file1.txt", encoding |-> "7bit",
      mimetype |-> "text/plain"],
     [fieldname |-> "doc2", filename |-> "photo.png", encoding |-> "base64",
      mimetype |-> "image/png"]}
ChunkValues == {<<1>>, <<2, 3>>}

RECURSIVE Concat(_)
Concat(chunks) ==
    IF chunks = <<>> THEN <<>> ELSE Head(chunks) \o Concat(Tail(chunks))

StreamBufferLastChunk(chunks) ==
    IF chunks = <<>> THEN <<>> ELSE chunks[Len(chunks)]

\* node:stream/consumers buffer(file): every chunk read, concatenated in order.
StreamBuffer(chunks) == Concat(chunks)

\* wrapBufferIntoMultipartFileBuffer: the buffer with read-only metadata.
wrapBufferIntoMultipartFileBuffer(buf, fieldname, filename, encoding, mimetype) ==
    [bytes |-> buf, fieldname |-> fieldname, filename |-> filename,
     encoding |-> encoding, mimetype |-> mimetype, size |-> Len(buf)]

NewBufferFiles ==
    [op |-> "bufferFiles", up |-> "open", parts |-> <<>>, out |-> <<>>,
     from |-> <<>>, outState |-> "open", outErr |-> "none"]

\* Chunks the first n parts' streams have delivered so far.
RECURSIVE ChunksRead(_, _)
ChunksRead(o, n) ==
    IF n = 0 THEN 0 ELSE ChunksRead(o, n - 1) + Len(o.parts[n].chunks)

\* Parts whose byte stream is still being read by buffer().
Reading(o) == {i \in DOMAIN o.parts : o.parts[i].state = "reading"}

\* Parts whose inner stream from(buffer(file)) has not settled yet: the read
\* goes on, or its promise has not yet been resolved or rejected.
Active(o) == {i \in DOMAIN o.parts : o.parts[i].state \in {"reading", "ended", "errored"}}

\* mergeMap's next: subscribe from(buffer(file)); the read starts.
BufferFilesNext(o, meta) ==
    [o EXCEPT !.parts = Append(@, [meta |-> meta, chunks |-> <<>>, state |-> "reading",
                                   err |-> "none"])]

\* The part's stream delivers a chunk to buffer().
BufferFilesChunk(o, i, c) == [o EXCEPT !.parts[i].chunks = Append(@, c)]

\* The part's stream ends: buffer()'s promise will resolve on a later turn.
BufferFilesEnded(o, i) == [o EXCEPT !.parts[i].state = "ended"]

\* buffer()'s promise resolves: map wraps the buffer, the inner stream emits it
\* and completes (to nobody once the output has ended); mergeMap completes
\* after the source has completed and no inner stream is active.
BufferFilesResolved(o, i) ==
    LET f == o.parts[i].meta
        e == [o EXCEPT !.parts[i].state = "resolved"]
        n == IF o.outState # "open" THEN e
             ELSE [e EXCEPT !.out = Append(@, wrapBufferIntoMultipartFileBuffer(
                                        StreamBuffer(o.parts[i].chunks), f.fieldname,
                                        f.filename, f.encoding, f.mimetype)),
                            !.from = Append(@, i)]
    IN  IF n.outState = "open" /\ n.up = "complete" /\ Active(n) = {}
        THEN [n EXCEPT !.outState = "complete"] ELSE n

\* The part's stream errors: buffer()'s promise will reject on a later turn.
BufferFilesFileError(o, i, e) ==
    [o EXCEPT !.parts[i].state = "errored", !.parts[i].err = e]

\* buffer()'s promise rejects: the inner stream errors and mergeMap errors.
BufferFilesRejected(o, i) ==
    LET x == [o EXCEPT !.parts[i].state = "rejected"] IN
    IF o.outState = "open"
    THEN [x EXCEPT !.outState = "error", !.outErr = o.parts[i].err] ELSE x

\* The source completes.
BufferFilesComplete(o) ==
    LET c == [o EXCEPT !.up = "complete"] IN
    IF o.outState = "open" /\ Active(o) = {}
    THEN [c EXCEPT !.outState = "complete"] ELSE c

\* The source errors: forwarded at once, the parts being read yield nothing.
BufferFilesError(o, e) ==
    LET x == [o EXCEPT !.up = "error"] IN
    IF o.outState = "open" THEN [x EXCEPT !.outState = "error", !.outErr = e] ELSE x

BufferInit == ops = NewBufferFiles /\ MainIdle

\* While the output is open mergeMap is subscribed to the source.
BufferLive == ops.outState = "open"

BufferPart ==
    /\ BufferLive /\ ops.up = "open" /\ Len(ops.parts) < MaxSourceFiles
    /\ \E meta \in FileMetas : OpsStep(BufferFilesNext(ops, meta))

\* The reads are the file streams' own: they go on after the output has ended.
BufferChunk ==
    \E i \in Reading(ops) :
        /\ ChunksRead(ops, Len(ops.parts)) < MaxChunks
        /\ \E c \in ChunkValues : OpsStep(BufferFilesChunk(ops, i, c))

BufferEnded == \E i \in Reading(ops) : OpsStep(BufferFilesEnded(ops, i))

BufferResolved ==
    \E i \in DOMAIN ops.parts :
        ops.parts[i].state = "ended" /\ OpsStep(BufferFilesResolved(ops, i))

BufferFileError ==
    \E i \in Reading(ops) : OpsStep(BufferFilesFileError(ops, i, "TruncatedFileError"))

BufferRejected ==
    \E i \in DOMAIN ops.parts :
        ops.parts[i].state = "errored" /\ OpsStep(BufferFilesRejected(ops, i))

BufferDone == BufferLive /\ ops.up = "open" /\ OpsStep(BufferFilesComplete(ops))

BufferFail ==
    /\ BufferLive /\ ops.up = "open"
    /\ \E e \in UpstreamErrors : OpsStep(BufferFilesError(ops, e))

BufferNext ==
    \/ BufferPart \/ BufferChunk \/ BufferEnded \/ BufferResolved
    \/ BufferFileError \/ BufferRejected \/ BufferDone \/ BufferFail

BufferSpec == BufferInit /\ [][BufferNext]_vars

\* --------------------------------------------- decoder subscriptions
\* parseMultipartData(req, ...) returns a cold stream: the function passed to
\* new Observable runs once per subscription, on the one request byte source.

\* Subscriptions made to one decoder stream and chunks of the request body.
MaxSubscriptions == 2
MaxReads == 2

NewDecode(headersOk) ==
    [op |-> "decode", headersOk |-> headersOk, req |-> "paused", read |-> 0,
     eof |-> FALSE, endTick |-> FALSE, resumeTick |-> FALSE, subs |-> <<>>]

\* Tokenizers the byte source is piped into.
PipedInto(o) == {i \in DOMAIN o.subs : o.subs[i].piped}

\* subscribe(): busboy(...) is built for this subscription (or throws and the
\* subscriber errors), then req.pipe(bb) and req.resume(). Piped onto a source
\* that has already ended, the tokenizer is ended on the next tick; resume() on
\* a paused source queues its resume tick, and on a source whose data has ended
\* that tick reads the end and schedules "end".
DecodeSubscribe(o) ==
    IF ~o.headersOk
    THEN [o EXCEPT !.subs = Append(@, [state |-> "error", piped |-> FALSE,
                                       attached |-> FALSE, fed |-> 0, end |-> "no"])]
    ELSE [o EXCEPT !.subs = Append(@, [state |-> "open", piped |-> TRUE,
                                       attached |-> TRUE, fed |-> 0,
                                       end |-> IF o.req = "ended" THEN "tick" ELSE "no"]),
                   !.req = IF @ = "paused" THEN "flowing" ELSE @,
                   !.resumeTick = (@ \/ o.req = "paused"),
                   !.endTick = (@ \/ (o.eof /\ o.req # "ended"))]

\* The teardown of subscription i: req.unpipe(bb); a source left without any
\* destination is paused by unpipe.
DecodeTeardown(o, i, how) ==
    LET u == [o EXCEPT !.subs[i].state = how, !.subs[i].piped = FALSE] IN
    IF PipedInto(u) = {} /\ u.req = "flowing" THEN [u EXCEPT !.req = "paused"] ELSE u

\* The byte source emits a chunk: written to every tokenizer it is piped into.
DecodeData(o) ==
    [o EXCEPT !.read = @ + 1,
              !.subs = [i \in DOMAIN @ |->
                           IF @[i].piped THEN [@[i] EXCEPT !.fed = @ + 1] ELSE @[i]]]

\* req.push(null): the body's data has ended. A flowing source reads the end
\* and schedules its "end" event, which a later unpipe or pause does not stop;
\* so does a paused source whose resume tick is still queued, since that tick
\* reads whether or not the source was paused again.
DecodeEof(o) ==
    [o EXCEPT !.eof = TRUE, !.endTick = (o.req = "flowing" \/ o.resumeTick)]

\* The tick resume() queued has run.
DecodeResumed(o) == [o EXCEPT !.resumeTick = FALSE]

\* The byte source emits "end": pipe(bb, { end: true }) calls bb.end() on every
\* tokenizer it is piped into; each tokenizer's "finish" comes later.
DecodeEnd(o) ==
    [o EXCEPT !.req = "ended",
              !.subs = [i \in DOMAIN @ |->
                           IF @[i].piped THEN [@[i] EXCEPT !.end = "called"] ELSE @[i]]]

\* The tick pipe() scheduled for a tokenizer piped onto an ended source: bb.end().
DecodeLateEnd(o, i) == [o EXCEPT !.subs[i].end = "called"]

\* bb.on("finish") of subscription i: subscriber.complete(), then its teardown.
DecodeFinish(o, i) == DecodeTeardown(o, i, "complete")

DecodeInit ==
    /\ \E headersOk \in BOOLEAN : ops = NewDecode(headersOk)
    /\ MainIdle

DecodeSub ==
    /\ Len(ops.subs) < MaxSubscriptions
    /\ OpsStep(DecodeSubscribe(ops))

DecodeUnsub ==
    \E i \in DOMAIN ops.subs :
        /\ ops.subs[i].state = "open"
        /\ OpsStep(DecodeTeardown(ops, i, "closed"))

\* A tokenizer reports a failure on what it was fed, or on the end of its
\* input: fail(err) errors subscription i.
DecodeFail ==
    \E i \in DOMAIN ops.subs :
        /\ ops.subs[i].state = "open"
        /\ ops.subs[i].fed > 0 \/ ops.subs[i].end = "called"
        /\ OpsStep(DecodeTeardown(ops, i, "error"))

DecodeChunk ==
    /\ ops.req = "flowing" /\ ~ops.eof /\ ops.read < MaxReads
    /\ OpsStep(DecodeData(ops))

DecodeBodyEof ==
    /\ ~ops.eof
    /\ OpsStep(DecodeEof(ops))

DecodeBodyEnd ==
    /\ ops.endTick /\ ops.req # "ended"
    /\ OpsStep(DecodeEnd(ops))

DecodeResumeTick ==
    /\ ops.resumeTick
    /\ OpsStep(DecodeResumed(ops))

\* The tick is not cancelled by the subscription's teardown.
DecodeEndTick ==
    \E i \in DOMAIN ops.subs :
        /\ ops.subs[i].end = "tick"
        /\ OpsStep(DecodeLateEnd(ops, i))

DecodeDone ==
    \E i \in DOMAIN ops.subs :
        /\ ops.subs[i].state = "open" /\ ops.subs[i].end = "called"
        /\ OpsStep(DecodeFinish(ops, i))

DecodeNext ==
    \/ DecodeSub \/ DecodeUnsub \/ DecodeFail \/ DecodeChunk \/ DecodeBodyEof
    \/ DecodeBodyEnd \/ DecodeResumeTick
    \/ DecodeEndTick \/ DecodeDone

DecodeSpec == DecodeInit /\ [][DecodeNext]_vars

\* ------------------------------------------------ execution contexts
\* The interceptor and the parameter decorators by execution context.

ContextTypes == {"http", "ws", "rpc"}
\* Decorator options: none, one name, a list with a required entry, a list of
\* optional entries only.
OptionShapes == {"undefined", "string", "array", "optionalArray"}

\* The request may already carry channels (a route behind another interceptor,
\* or the mock requests of the decorator tests).
NewContext(ctxType, kind, shape, carries, headersOk) ==
    [op |-> "context", ctxType |-> ctxType, kind |-> kind, shape |-> shape,
     headersOk |-> headersOk, channels |-> carries, req |-> "untouched",
     decoder |-> "none", handler |-> "idle", hLog |-> <<>>, out |-> <<>>,
     param |-> "none", paramLog |-> <<>>]

MultipartFactoryChannelOnly(o) ==
    IF ~o.channels THEN "EMPTY"
    ELSE IF o.shape = "undefined" THEN "channel" ELSE "piped"

\* multipartFilesFactory / multipartFieldsFactory: EMPTY for a non-HTTP context
\* and for a request without channels, else the channel, bare or piped.
MultipartFactory(o) ==
    IF o.ctxType # "http" THEN "EMPTY"
    ELSE IF ~o.channels THEN "EMPTY"
    ELSE IF o.shape = "undefined" THEN "channel" ELSE "piped"

\* The handler is invoked: its decorated parameter is built and subscribed;
\* EMPTY completes on subscription.
InvokeWithParam(o) ==
    LET r == MultipartFactory(o) IN
    [o EXCEPT !.handler = "running", !.param = r,
              !.paramLog = IF r = "EMPTY" THEN <<"c">> ELSE <<>>]

\* intercept() and the subscription of what it returns.
Intercept(o) ==
    IF o.ctxType # "http" THEN InvokeWithParam(o)
    ELSE IF ~o.headersOk
    THEN [o EXCEPT !.req = "paused", !.decoder = "failed", !.out = Append(@, "e")]
    ELSE [InvokeWithParam([o EXCEPT !.channels = TRUE, !.decoder = "started"])
             EXCEPT !.req = "flowing"]

\* A notification of the handler's result stream, as the output shows it. An
\* error ends the output, which unsubscribes a started decoder: its teardown
\* unpipes, and so pauses, the request.
HandlerNotifies(o, what) ==
    LET h == [o EXCEPT !.hLog = Append(@, what),
                       !.handler = CASE what = "c" -> "completed"
                                     [] what = "e" -> "errored"
                                     [] OTHER -> @]
    IN  IF o.decoder = "started" /\ what = "c" THEN h
        ELSE IF o.decoder = "started" /\ what = "e"
        THEN [h EXCEPT !.out = Append(@, what), !.decoder = "cancelled",
                       !.req = "paused"]
        ELSE [h EXCEPT !.out = Append(@, what)]

\* What the decorated parameter shows when its channel completes with no part
\* published: the completion, or the validation's error for a required entry.
ParamOnComplete(o) ==
    CASE o.param = "channel" -> <<"c">>
      [] o.param = "piped" -> IF o.shape \in {"string", "array"} THEN <<"e">> ELSE <<"c">>
      [] OTHER -> <<>>

\* The tokenizer finishes: files.complete(), fields.complete(), then the
\* decoder's stream completes and its teardown unpipes the request.
DecoderCompletes(o) ==
    [o EXCEPT !.decoder = "complete",
              !.req = "paused",
              !.paramLog = @ \o ParamOnComplete(o),
              !.out = IF o.handler = "completed" THEN Append(@, "c") ELSE @]

ContextInit ==
    /\ \E ctxType \in ContextTypes, kind \in {"files", "fields"},
          shape \in OptionShapes, carries \in BOOLEAN, headersOk \in BOOLEAN :
          ops = NewContext(ctxType, kind, shape, carries, headersOk)
    /\ MainIdle

ContextIntercept ==
    /\ ops.handler = "idle" /\ ops.decoder = "none"
    /\ OpsStep(Intercept(ops))

\* A route without the interceptor: the handler is invoked directly.
ContextPlainRoute ==
    /\ ops.handler = "idle" /\ ops.decoder = "none"
    /\ OpsStep(InvokeWithParam(ops))

ContextHandler ==
    /\ ops.handler = "running"
    /\ \E what \in {"n", "c", "e"} :
          /\ what = "n" => Len(ops.hLog) < MaxParts
          /\ OpsStep(HandlerNotifies(ops, what))

ContextDecoderEnd ==
    /\ ops.decoder = "started" /\ ops.handler # "errored"
    /\ OpsStep(DecoderCompletes(ops))

ContextNext ==
    \/ ContextIntercept \/ ContextPlainRoute \/ ContextHandler \/ ContextDecoderEnd

ContextSpec == ContextInit /\ [][ContextNext]_vars

\* ------------------------------------------- validated subscriptions
\* One validated stream (channel.pipe(validateRequired...(required))) with
\* several subscriptions, attached at different moments of the request.

RequiredLists ==
    {<<>>, <<<<"a">>>>, <<<<"a">>, <<"b">>>>, <<<<"^", "a">>, <<"b">>>>}

NewValidated(kind, args) ==
    [op |-> "validated", kind |-> kind, args |-> args, up |-> "open",
     published |-> <<>>, subs |-> <<>>]

ValidatedSubscribeShared(o) ==
    LET fresh == NewOp(o.kind, o.args) IN
    [o EXCEPT !.subs = Append(@, IF Len(o.subs) = 0 THEN fresh
                                 ELSE [fresh EXCEPT !.remaining = o.subs[1].remaining,
                                                    !.matched = o.subs[1].matched])]

\* new Observable((subscriber) => { const remainingRequired = new Set(...) }):
\* the tracking set is built when a subscription is made.
ValidatedSubscribe(o) == [o EXCEPT !.subs = Append(@, NewOp(o.kind, o.args))]

\* The channel publishes a part: every subscription's tap and next run.
ValidatedNext(o, name) ==
    [o EXCEPT !.published = Append(@, name),
              !.subs = [i \in DOMAIN @ |->
                           IF o.kind = "validateFiles"
                           THEN ValidateFilesNext(@[i], name)
                           ELSE ValidateFieldsNext(@[i], name)]]

\* The channel completes: every subscription's complete handler runs.
ValidatedComplete(o) ==
    [o EXCEPT !.up = "complete",
              !.subs = [i \in DOMAIN @ |->
                           IF o.kind = "validateFiles"
                           THEN ValidateFilesComplete(@[i])
                           ELSE ValidateFieldsComplete(@[i])]]

\* The channel errors: every subscription's error handler runs.
ValidatedError(o, e) ==
    [o EXCEPT !.up = "error",
              !.subs = [i \in DOMAIN @ |->
                           IF o.kind = "validateFiles"
                           THEN ValidateFilesError(@[i], e)
                           ELSE ValidateFieldsError(@[i], e)]]

ValidatedInit ==
    /\ \E kind \in {"validateFiles", "validateFields"}, args \in RequiredLists :
          ops = NewValidated(kind, args)
    /\ MainIdle

ValidatedSub ==
    /\ ops.up = "open" /\ Len(ops.subs) < MaxSubscriptions
    /\ OpsStep(ValidatedSubscribe(ops))

ValidatedPart ==
    /\ ops.up = "open" /\ Len(ops.published) < MaxInput
    /\ \E name \in PartNames : OpsStep(ValidatedNext(ops, name))

ValidatedDone ==
    /\ ops.up = "open"
    /\ OpsStep(ValidatedComplete(ops))

ValidatedFail ==
    /\ ops.up = "open"
    /\ \E e \in UpstreamErrors : OpsStep(ValidatedError(ops, e))

ValidatedStep == ValidatedSub \/ ValidatedPart \/ ValidatedDone \/ ValidatedFail

ValidatedSpec == ValidatedInit /\ [][ValidatedStep]_vars

\* ---------------------------------------------------------------- claims

\* C1: whenever the fail path publishes an error, the file channel, the field
\* channel and the decoder's own stream all hold that same error: in every
\* state all three have it or none has, also after the decoder's output was
\* unsubscribed.
C1_FailAllOrNone ==
    LET failed == {x \in {"files", "fields", "decoder"} :
                     CASE x = "files" -> files.state = "error"
                       [] x = "fields" -> fields.state = "error"
                       [] x = "decoder" -> dec.teardownSet /\ dec.sub = "error"}
    IN  /\ failed = {} \/ failed = {"files", "fields", "decoder"}
        /\ failed # {} => files.err = fields.err /\ fields.err = dec.err

\* C2: the fail path lets an error through if and only if consumerDoneSignal has
\* not completed yet or bubbleErrors is true (stated for a failure that occurs
\* while the decoder's stream is still subscribed, so while the completion
\* signal is still listened to).
C2_GateAsDocumented ==
    (hist.lastFail.set /\ hist.lastFail.live) =>
        (hist.lastFail.gate <=> (~hist.lastFail.done \/ cfg.bubbleErrors = TRUE))

\* C3: every file part that reached end-of-stream with the truncation flag set
\* had TruncatedFileError raised on its stream and handed to the fail path,
\* with or without an error listener on the file stream.
C3_TruncationReachesFailPath ==
    \A i \in DOMAIN fs :
        (fs[i].ended /\ fs[i].trunc) => (fs[i].err # "none" /\ fs[i].failed)

\* C4: with autodrain enabled and a request body that ends, every file part
\* published on the file channel eventually reaches end-of-stream, read or not,
\* and the tokenizer's finish event eventually fires. Stated for the requests
\* the claim is about: the body arrives whole (no request error) and the parse
\* is not cut short (the decoder is torn down by the finish event only).
C4_AutodrainEndsEveryFile ==
    (/\ cfg.autodrain /\ cfg.headersOk
     /\ [](req # "errored")
     /\ [](dec.torn => tok.finished))
    => /\ \A i \in 1..MaxFiles :
             [](i \in DOMAIN fs => <>(i \in DOMAIN fs /\ fs[i].ended))
       /\ <>tok.finished

\* C5: no byte of a file part that the handler reads is discarded by the drain
\* pass, whatever the order of drain callback, reader attachment and byte arrival.
C5_DrainSparesHandlerFiles ==
    \A i \in DOMAIN fs : fs[i].reader => fs[i].discarded = 0

\* C6: each channel delivers at most one terminal notification and nothing
\* after it: every notification before the last one is a next-value, and an
\* open channel has delivered next-values only.
C6_OneTerminal ==
    \A ch \in {files, fields} :
        /\ \A k \in 1..Len(ch.log) :
              (k < Len(ch.log) \/ ch.state = "open") => ch.log[k] = "n"
        /\ ch.state = "error" => ch.log[Len(ch.log)] = "e"
        /\ ch.state = "complete" => ch.log[Len(ch.log)] = "c"

\* A second failure passed the gate after the file channel had already errored,
\* with a file published before the first one.
C6_Witness ==
    /\ files.state = "error" /\ fields.state = "error"
    /\ hist.nFail >= 2 /\ hist.lastFail.gate
    /\ Len(files.log) >= 2

\* -------------------------------------------------- claims on operators

\* What an operator's subscriber has seen.
OutNames == LET IsNext(x) == x.k = "n"
                nexts == SelectSeq(ops.out, IsNext)
            IN  [k \in DOMAIN nexts |-> nexts[k].name]
OutTerminals == LET IsTerminal(x) == x.k # "n" IN SelectSeq(ops.out, IsTerminal)
TerminalLast ==
    \A k \in DOMAIN ops.out : ops.out[k].k # "n" => k = Len(ops.out)

\* C7: filterFilesByFieldNames(names) emits a part iff its field name is in
\* names, resumes exactly the parts it drops (all of them when names is empty)
\* and never a part it passes through.
C7_FilterFiles ==
    ops.op = "filterFiles" =>
        LET Wanted(name) == name \in Range(ops.args) IN
        /\ OutNames = SelectSeq(ops.inp, Wanted)
        /\ \A k \in DOMAIN ops.inp : ops.resumed[k] <=> ~Wanted(ops.inp[k])

C7_Witness ==
    /\ ops.op = "filterFiles" /\ Len(ops.args) = 2
    /\ Len(OutNames) = 1 /\ Len(ops.inp) = 2
    /\ \E k \in DOMAIN ops.resumed : ops.resumed[k]

\* C8: validateRequiredFiles(names) passes every part through, duplicates
\* included; nothing terminal is emitted before upstream completes; at upstream
\* completion it completes if every required name was observed and otherwise
\* emits one MissingFilesError listing the required names never observed, in
\* the order given, instead of completing.
C8_ValidateFiles ==
    ops.op = "validateFiles" =>
        LET Unseen(name) == name \notin Range(ops.inp)
            missing == SelectSeq(NewSet(ops.args), Unseen)
        IN  /\ OutNames = ops.inp
            /\ TerminalLast
            /\ ops.up = "open" => OutTerminals = <<>>
            /\ ops.up = "complete" =>
                   OutTerminals = IF missing = <<>> THEN <<CompleteOf>>
                                  ELSE <<ErrorOf("MissingFilesError", missing)>>

C8_Witness ==
    /\ ops.op = "validateFiles" /\ ops.up = "complete"
    /\ ops.args = <<<<"a">>, <<"b">>>> /\ ops.inp = <<<<"a">>, <<"a">>>>
    /\ OutTerminals = <<ErrorOf("MissingFilesError", <<<<"b">>>>)>>

\* C9: an upstream error reaches the consumer of validateRequiredFiles /
\* validateRequiredFields as that very error, never as a missing-item error,
\* also while required entries are unsatisfied.
C9_UpstreamErrorNotMasked ==
    (ops.op \in {"validateFiles", "validateFields"} /\ ops.up = "error") =>
        /\ OutTerminals = <<ErrorOf(ops.upErr, <<>>)>>
        /\ TerminalLast

C9_Witness ==
    /\ ops.op = "validateFiles" /\ ops.up = "error"
    /\ Len(ops.remaining) > 0 /\ Len(ops.inp) > 0
    /\ OutTerminals = <<ErrorOf(ops.upErr, <<>>)>>

\* The claim's own reading of a match: '^' + prefix, or the exact name.
C10_Satisfies(name, pattern) ==
    IF Len(pattern) > 0 /\ pattern[1] = "^"
    THEN \E k \in 0..Len(name) :
            /\ k = Len(pattern) - 1
            /\ \A j \in 1..k : name[j] = pattern[j + 1]
    ELSE name = pattern

\* C10: validateRequiredFields(patterns) passes every field through; at upstream
\* completion it emits one MissingFieldsError listing exactly the required
\* patterns no observed field name matched, as the pattern strings themselves,
\* or completes when every pattern was matched; one field may satisfy several.
C10_ValidateFields ==
    ops.op = "validateFields" =>
        LET Unmatched(p) == \A k \in DOMAIN ops.inp : ~C10_Satisfies(ops.inp[k], p)
            missing == SelectSeq(ops.args, Unmatched)
        IN  /\ OutNames = ops.inp
            /\ TerminalLast
            /\ ops.up = "open" => OutTerminals = <<>>
            /\ ops.up = "complete" =>
                   OutTerminals = IF missing = <<>> THEN <<CompleteOf>>
                                  ELSE <<ErrorOf("MissingFieldsError", missing)>>

C10_Witness ==
    /\ ops.op = "validateFields" /\ ops.up = "complete"
    /\ ops.args = <<<<"^", "a">>, <<"b">>>> /\ ops.inp = <<<<"a", "b">>>>
    /\ OutTerminals = <<ErrorOf("MissingFieldsError", <<<<"b">>>>)>>

\* The claim's own reading of a match, applied to a list of patterns.
C11_Matches(name, pattern) ==
    \/ /\ Len(pattern) >= 1 /\ Head(pattern) = "^"
       /\ \E rest \in SeqsUpTo(Range(name), Len(name)) : name = Tail(pattern) \o rest
    \/ /\ ~(Len(pattern) >= 1 /\ Head(pattern) = "^")
       /\ name = pattern

\* C11: a field name matches a pattern iff the pattern is '^' + a prefix of the
\* name, or has no '^' and equals the name, case-sensitively; and
\* filterFieldsByPatterns emits a field once, in source order, iff it matches at
\* least one pattern.
C11_FilterFields ==
    /\ \A name \in FieldNames, pattern \in FieldPatterns :
          matchesFieldPattern(name, pattern) <=> C11_Matches(name, pattern)
    /\ ops.op = "filterFields" =>
          LET Wanted(name) == \E k \in DOMAIN ops.args : C11_Matches(name, ops.args[k])
          IN  OutNames = SelectSeq(ops.inp, Wanted)

C11_Witness ==
    /\ ops.op = "filterFields"
    /\ ops.args = <<<<"^", "a">>, <<"^">>>>
    /\ ops.inp = <<<<"A">>, <<>>>>
    /\ OutNames = ops.inp
    /\ ~matchesFieldPattern(<<"A">>, <<"^", "a">>)
    /\ matchesFieldPattern(<<"a", "b">>, <<"^", "a">>)

\* C12: a string option is one required entry; in an array 'name', ['name'] and
\* ['name', true] are required and ['name', false] is optional; the stream emits
\* exactly the parts matching some entry and at completion reports exactly the
\* unmatched required entries (none: it completes); undefined options return
\* the channel as is.
C12_DecoratorOptions ==
    ops.op \in {"filesFactory", "fieldsFactory"} =>
        LET o == ops.options
            Hit(name, entry) == IF ops.op = "filesFactory" THEN name = entry
                                ELSE C11_Matches(name, entry)
            required == IF o.t = "string" THEN <<o.v[1].name>>
                        ELSE LET Req(v) == v.form \in {"bare", "single", "true"}
                             IN  EntryName(SelectSeq(o.v, Req))
            Wanted(name) == \E k \in DOMAIN o.v : Hit(name, o.v[k].name)
            Unmatched(entry) == \A k \in DOMAIN ops.inp : ~Hit(ops.inp[k], entry)
            missing == SelectSeq(IF ops.op = "filesFactory" THEN NewSet(required)
                                 ELSE required, Unmatched)
            missingError == IF ops.op = "filesFactory" THEN "MissingFilesError"
                            ELSE "MissingFieldsError"
        IN  /\ TerminalLast
            /\ ops.up = "open" => OutTerminals = <<>>
            /\ ops.up = "error" => OutTerminals = <<ErrorOf(ops.upErr, <<>>)>>
            /\ o.t = "undefined" =>
                  /\ OutNames = ops.inp
                  /\ ops.up = "complete" => OutTerminals = <<CompleteOf>>
            /\ o.t # "undefined" =>
                  /\ OutNames = SelectSeq(ops.inp, Wanted)
                  /\ ops.up = "complete" =>
                        OutTerminals = IF missing = <<>> THEN <<CompleteOf>>
                                       ELSE <<ErrorOf(missingError, missing)>>

C12_Witness ==
    /\ ops.op = "fieldsFactory" /\ ops.up = "complete"
    /\ ops.options = [t |-> "array",
                      v |-> <<[name |-> <<"^", "a">>, form |-> "single"],
                              [name |-> <<"a">>, form |-> "false"]>>]
    /\ ops.inp = <<<<"b">>, <<"a", "b">>>>
    /\ OutNames = <<<<"a", "b">>>>
    /\ OutTerminals = <<CompleteOf>>

\* ------------------------------------------ claims on associative names

HasOpen(name) == \E k \in DOMAIN name : name[k] = "["
HasClose(name) == \E k \in DOMAIN name : name[k] = "]"
\* A '[' with no ']' after it.
Unterminated(name) ==
    \E k \in DOMAIN name :
        name[k] = "[" /\ \A j \in DOMAIN name : j > k => name[j] # "]"
\* A ']' with no '[' open: the nearest bracket before it is not a '['.
UnmatchedClose(name) ==
    \E k \in DOMAIN name :
        /\ name[k] = "]"
        /\ \A i \in 1..(k - 1) :
              name[i] = "[" => \E j \in (i + 1)..(k - 1) : name[j] \in {"[", "]"}
\* A '[' inside an open bracket.
NestedOpen(name) ==
    \E i, k \in DOMAIN name :
        /\ i < k /\ name[i] = "[" /\ name[k] = "["
        /\ \A j \in (i + 1)..(k - 1) : name[j] # "]"
Parsed(basename, associations) ==
    /\ ops.result = "parsed"
    /\ ops.field = [name |-> ops.name, isAssociative |-> TRUE,
                    basename |-> basename, associations |-> associations]
NotAssociative ==
    /\ ops.result = "undefined"
    /\ ops.field = [name |-> ops.name, isAssociative |-> FALSE,
                    basename |-> <<>>, associations |-> <<>>]

\* C13: the associative parse is total: 'a[b][a]' gives basename 'a' and
\* associations ['b','a'], 'a[]' gives 'a' and [''], '[]' gives '' and [''];
\* a name without brackets, the empty name, a name with an unterminated '[',
\* an unmatched ']' or a '[' nested in an open bracket is returned unmodified;
\* the scan always returns.
C13_ParseTotal ==
    /\ Scanning => ENABLED ParseNext
    /\ ~Scanning =>
          /\ Parsed(ops.basename, ops.associations) \/ NotAssociative
          /\ ops.name = <<"a", "[", "b", "]", "[", "a", "]">>
                => Parsed(<<"a">>, <<<<"b">>, <<"a">>>>)
          /\ ops.name = <<"a", "[", "]">> => Parsed(<<"a">>, <<<<>>>>)
          /\ ops.name = <<"[", "]">> => Parsed(<<>>, <<<<>>>>)
          /\ (~HasOpen(ops.name) /\ ~HasClose(ops.name)) => NotAssociative
          /\ Len(ops.name) = 0 => NotAssociative
          /\ Unterminated(ops.name) => NotAssociative
          /\ UnmatchedClose(ops.name) => NotAssociative
          /\ NestedOpen(ops.name) => NotAssociative

C13_Witness ==
    /\ ops.name = <<"a", "[", "b", "]", "[", "a", "]">>
    /\ Parsed(<<"a">>, <<<<"b">>, <<"a">>>>)

RECURSIVE Groups(_)
Groups(associations) ==
    IF associations = <<>> THEN <<>>
    ELSE <<"[">> \o Head(associations) \o <<"]">> \o Groups(Tail(associations))

\* C14: a name marked associative with basename b and associations a1..ak is
\* exactly b followed by the groups [a1]...[ak], no ai holds a bracket, and a
\* name with another character after a closing bracket is passed unmodified.
C14_RoundTrip ==
    /\ ops.result = "parsed" =>
          /\ Len(ops.field.associations) >= 1
          /\ ops.name = ops.field.basename \o Groups(ops.field.associations)
          /\ \A k \in DOMAIN ops.field.associations :
                ~HasOpen(ops.field.associations[k]) /\ ~HasClose(ops.field.associations[k])
    /\ (~Scanning /\ \E k \in 1..(Len(ops.name) - 1) :
                        ops.name[k] = "]" /\ ops.name[k + 1] \notin {"[", "]"})
          => NotAssociative

\* ------------------------------------------- claims on the exception filter

\* C15: in an HTTP host the count-limit errors answer 413, the truncation and
\* missing-item errors 400 and any other MultipartError 500, whatever the error
\* carries; in any other host the error is rethrown unchanged and nothing is
\* written to a response.
C15_StatusMapping ==
    ops.state # "caught" =>
        LET class == ops.exception.class
            expected ==
                IF class \in {"PartsLimitError", "FilesLimitError", "FieldsLimitError"}
                THEN 413
                ELSE IF class \in {"TruncatedFileError", "TruncatedFieldError",
                                   "MissingFilesError", "MissingFieldsError"}
                THEN 400
                ELSE 500
        IN  IF ops.host = "http"
            THEN /\ ops.state = "responded" /\ ops.thrown = <<>>
                 /\ ops.res.status = expected
                 /\ Len(ops.res.json) = 1
                 /\ ops.res.json[1].statusCode = expected
                 /\ ops.res.json[1].message = ops.exception.message
            ELSE /\ ops.state = "thrown" /\ ops.thrown = <<ops.exception>>
                 /\ ops.res = NoResponse

C15_Witness ==
    /\ ops.state = "responded"
    /\ ops.exception = NewTruncatedFileError(<<"a">>)
    /\ ops.res.status = 400

\* ------------------------------------------------- claims on the decoder

\* C16: when the tokenizer cannot be initialized the decoder's stream errors
\* with a MultipartError whose cause is the tokenizer's error, no channel pair
\* is emitted and the request is never fed to a tokenizer.
C16_InitFailure ==
    (~cfg.headersOk /\ dec.sub # "idle") =>
        /\ dec.sub = "error" /\ dec.err = "MultipartError"
        /\ dec.cause = "BusboyInitError"
        /\ dec.log = <<"e">>
        /\ ~icp.reqFiles /\ icp.handler = "idle"
        /\ ~dec.piped /\ ~dec.bbListeners /\ req = "paused"
        /\ tok.n = 0 /\ fs = <<>>

C16_Witness ==
    /\ ~cfg.headersOk /\ dec.sub = "error" /\ dec.cause = "BusboyInitError"
    /\ icp.out = "error"

\* C17: the request is paused and unfed until the decoder's output is
\* subscribed; on subscription the channel pair is emitted before the request
\* is piped to the tokenizer and resumed.
C17_PausedUntilSubscribed ==
    /\ dec.sub = "idle" =>
          /\ req = "paused" /\ ~dec.piped
          /\ tok.n = 0 /\ fs = <<>> /\ dec.log = <<>>
    /\ (dec.piped \/ req = "flowing" \/ tok.n > 0) =>
          /\ Len(dec.log) >= 1 /\ dec.log[1] = "n"
          /\ ~hist.pairFed

C17_Witness ==
    /\ dec.log = <<"n">> /\ ~hist.pairFed
    /\ req = "flowing" /\ dec.piped /\ tok.n > 0

\* C18: when the tokenizer signals the parts, files or fields limit, and errors
\* are to be published (the handler has not ended, or bubbleErrors is set), the
\* decoder's stream and both channels end with the matching limit error.
C18_LimitErrorsEndAll ==
    [][\A kind \in {"partsLimit", "filesLimit", "fieldsLimit"} :
          (/\ Parsing /\ tok.cur = 0 /\ tok.n < MaxParts
           /\ ~icp.done \/ cfg.bubbleErrors
           /\ Commit(OnLimit(St, kind)))
          => /\ files'.state = "error" /\ files'.err = LimitError(kind)
             /\ fields'.state = "error" /\ fields'.err = LimitError(kind)
             /\ dec'.sub = "error" /\ dec'.err = LimitError(kind)]_vars

\* C19: a truncated field is not published on the field channel and goes to the
\* fail path as a TruncatedFieldError; a field that is not truncated is
\* published at once.
C19_TruncatedFieldNotPublished ==
    [][\A truncated \in BOOLEAN :
          (/\ Parsing /\ tok.cur = 0 /\ tok.n < MaxParts
           /\ Commit(OnField(St, truncated)))
          => IF truncated
             THEN /\ hist'.nFail = hist.nFail + 1
                  /\ fields'.log \in {fields.log, Append(fields.log, "e")}
                  /\ fields'.state = "error" => fields'.err = "TruncatedFieldError"
             ELSE /\ hist'.nFail = hist.nFail
                  /\ fields'.log = Append(fields.log, "n")
                  /\ fields'.state = "open"]_vars

C19_Witness ==
    /\ fields.log = <<"n", "e">> /\ fields.err = "TruncatedFieldError"
    /\ hist.nFail = 1 /\ tok.n = 2

\* C20: once initialized, the decoder's stream emits exactly one channel pair,
\* first, and nothing else until it ends; it completes only on the tokenizer's
\* finish and errors only after a failure; at finish the file channel, the
\* field channel and the decoder's stream are all complete.
C20_OnePairThenOpen ==
    /\ dec.teardownSet =>
          /\ Len(dec.log) >= 1 /\ dec.log[1] = "n"
          /\ \A k \in 2..Len(dec.log) : dec.log[k] # "n" /\ k = Len(dec.log)
          /\ dec.sub = "open" => dec.log = <<"n">>
          /\ dec.sub = "complete" => (tok.finished /\ dec.log = <<"n", "c">>)
          /\ dec.sub = "error" => (hist.nFail >= 1 /\ dec.log = <<"n", "e">>)
    /\ tok.finished =>
          /\ files.state = "complete" /\ fields.state = "complete"
          /\ dec.sub = "complete"

\* C21: unsubscribing releases the completion-signal subscription, unpipes the
\* request and removes the tokenizer's listeners; the teardown body runs at most
\* once; unsubscribing again changes nothing; after an initialization failure
\* there is no teardown to run and nothing is detached.
C21_TeardownIdempotent ==
    /\ [](/\ hist.nTorn <= 1
          /\ dec.torn <=> hist.nTorn = 1
          /\ dec.torn => (~dec.doneSub /\ ~dec.piped /\ ~dec.bbListeners)
          /\ icp.out = "unsub" => (dec.teardownSet /\ dec.torn)
          /\ ~cfg.headersOk => (~dec.teardownSet /\ hist.nTorn = 0))
    /\ [][(icp.out # "open" /\ Commit(Unsubscribe(St))) => UNCHANGED vars]_vars

C21_Witness ==
    /\ icp.out = "unsub" /\ dec.torn /\ hist.nTorn = 1
    /\ dec.sub = "closed" /\ tok.n >= 1
    /\ ENABLED CancelAgain

\* C22: the done signal has completed exactly when the handler's result stream
\* has ended, by completion, error or cancellation; while the handler's stream
\* is active the signal is pending and failures are still published.
C22_DoneIffHandlerEnded ==
    /\ icp.done <=> icp.handler \in {"completed", "errored", "cancelled"}
    /\ icp.handler = "running" => (~icp.done /\ dec.shouldEmitErrors)
    /\ icp.handler = "idle" => ~icp.done

C22_Witness ==
    /\ icp.done /\ icp.handler = "completed" /\ dec.sub = "open"
    /\ tok.n >= 1 /\ ~dec.doneSub

\* C23: from the moment the decoder has emitted the channel pair the channels
\* are on the request, and the handler is invoked only after they were stored,
\* so its decorators find them.
C23_ChannelsStoredBeforeHandler ==
    /\ (Len(dec.log) >= 1 /\ dec.log[1] = "n") => icp.reqFiles
    /\ icp.handler # "idle" => (icp.reqFiles /\ hist.found)

C23_Witness ==
    /\ icp.handler = "running" /\ icp.reqFiles /\ hist.found
    /\ dec.log = <<"n">> /\ icp.hFilesSub

\* C24: every file part has a single owner, a consumer or else the auto-drain:
\* a part delivered to a consumer is resumed neither by another stream's filter
\* nor by the interceptor's drain pass.
C24_SingleOwner ==
    ops.op = "sharedFiles" =>
        \A k \in DOMAIN ops.initiators :
            ops.initiators[k] \cap {"consumerA", "consumerB"} # {}
                => ops.initiators[k] \cap {"drain", "filterA", "filterB"} = {}

\* ------------------------------------------------ claims on published parts

PublishedFields(emitted) ==
    LET Kept(ev) == ev.kind = "field" /\ ~ev.truncated
        kept == SelectSeq(emitted, Kept)
    IN  [k \in DOMAIN kept |-> [name |-> kept[k].name, value |-> kept[k].value]]
PublishedFiles(emitted) ==
    LET IsFile(ev) == ev.kind = "file"
        kept == SelectSeq(emitted, IsFile)
    IN  [k \in DOMAIN kept |-> [fieldname |-> kept[k].name]]

\* C25: the file channel carries the file parts and the field channel the
\* published fields in the order the tokenizer reported them, each once and
\* none missing, for a subscriber attached throughout.
C25_PublishedInOrder ==
    /\ ops.fileItems = PublishedFiles(ops.emitted)
    /\ ops.fieldItems = PublishedFields(ops.emitted)

C25_Witness ==
    /\ Len(ops.fieldItems) = 2 /\ Len(ops.fileItems) = 1
    /\ ops.fieldItems[1] # ops.fieldItems[2]
    /\ ops.emitted[2].kind = "file"

\* C26: when no limit is exceeded, no part is truncated and every file part
\* is drained to its end, the field channel emits exactly one field per
\* non-file part, with that part's name and value, and then completes
\* without error.
C26_FieldsPerNonFilePart ==
    (/\ \A k \in DOMAIN ops.emitted :
           ops.emitted[k].kind \in {"field", "file"} /\ ~ops.emitted[k].truncated
     /\ ops.bodyEnded
     /\ \A i \in DOMAIN ops.ended : ops.ended[i])
    => LET IsField(ev) == ev.kind = "field"
           nonFile == SelectSeq(ops.emitted, IsField)
       IN  /\ Len(ops.fieldItems) = Len(nonFile)
           /\ \A k \in DOMAIN nonFile :
                 /\ ops.fieldItems[k].name = nonFile[k].name
                 /\ ops.fieldItems[k].value = nonFile[k].value
           /\ IF ops.finished
              THEN /\ ops.fields.state = "complete" /\ ops.fields.err = "none"
                   /\ ops.fields.log = [k \in 1..(Len(nonFile) + 1) |->
                                           IF k <= Len(nonFile) THEN "n" ELSE "c"]
              ELSE ops.fields.state = "open" /\ ENABLED PartsFinish

C26_Witness ==
    /\ ops.finished /\ ops.fields.state = "complete"
    /\ Len(ops.emitted) = 3 /\ Len(ops.fieldItems) = 2 /\ Len(ops.ended) = 1
    /\ ops.fieldItems[1] = [name |-> "a", value |-> "y"]

\* C27: with autodrain set to false the interceptor never starts the
\* consumption of a file part (no drain subscription, and a file leaves the
\* paused state only through a reader the handler attached), while the
\* channels are still stored on the request and the done signal still follows
\* the handler's stream; subscribing differs from the autodrain case in the
\* drain subscription alone.
C27_NoDrainWhenOff ==
    cfg.autodrain = FALSE =>
        /\ ~icp.drainSub
        /\ \A i \in DOMAIN fs : fs[i].flow # "paused" => fs[i].reader
        /\ icp.handler # "idle" => icp.reqFiles
        /\ icp.done <=> icp.handler \in {"completed", "errored", "cancelled"}
        /\ (dec.sub = "idle" /\ cfg.headersOk) =>
              LET on == SubscribeOk([St EXCEPT !.cfg.autodrain = TRUE])
              IN  /\ on.icp.drainSub
                  /\ SubscribeOk(St) =
                        [on EXCEPT !.cfg.autodrain = FALSE, !.icp.drainSub = FALSE]

C27_Witness ==
    /\ cfg.autodrain = FALSE /\ Len(fs) = 1
    /\ fs[1].flow = "paused" /\ fs[1].arrived >= 1 /\ ~fs[1].recv
    /\ icp.reqFiles /\ icp.done /\ icp.handler = "completed"

\* ------------------------------------------------- claims on bufferFiles

\* The buffer a part's bytes and metadata call for.
ExpectedBuffer(part) ==
    [bytes |-> Concat(part.chunks), fieldname |-> part.meta.fieldname,
     filename |-> part.meta.filename, encoding |-> part.meta.encoding,
     mimetype |-> part.meta.mimetype, size |-> Len(Concat(part.chunks))]

\* C28 (as amended): bufferFiles emits exactly one buffer for every source
\* file part whose read has finished (its byte stream ended without error and
\* the read's result arrived) while the output is live, holding the part's
\* bytes in arrival order and its fieldname, filename, encoding and mimetype
\* (an empty file: an empty buffer); a completed output holds one buffer per
\* source part; no part ever yields two buffers. A part whose read is rejected
\* (its stream errored) and a source error each make the output error, with an
\* error to report; once the output has ended no buffer is added to it, so
\* the parts not read by then have none.
C28_BufferPerEndedPart ==
    /\ [](/\ Len(ops.out) = Len(ops.from)
          /\ \A k \in DOMAIN ops.out :
                /\ ops.from[k] \in DOMAIN ops.parts
                /\ ops.parts[ops.from[k]].state = "resolved"
                /\ ops.out[k] = ExpectedBuffer(ops.parts[ops.from[k]])
                /\ \A j \in DOMAIN ops.from : ops.from[j] = ops.from[k] => j = k
          /\ ops.outState # "error" =>
                \A i \in DOMAIN ops.parts :
                    ops.parts[i].state = "resolved" => i \in Range(ops.from)
          /\ ops.outState = "complete" =>
                /\ Range(ops.from) = DOMAIN ops.parts
                /\ ops.up = "complete"
          /\ (\E i \in DOMAIN ops.parts : ops.parts[i].state = "rejected") =>
                ops.outState = "error"
          /\ ops.up = "error" => ops.outState = "error"
          /\ ops.outState = "error" <=> ops.outErr # "none")
    /\ [][ops.outState # "open" =>
              (ops.out' = ops.out /\ ops.outState' = ops.outState)]_vars

C28_Witness ==
    /\ ops.outState = "complete" /\ Len(ops.out) = 2
    /\ ops.from = <<2, 1>>
    /\ ops.out[1].bytes = <<>> /\ ops.out[1].size = 0 /\ ops.out[1].fieldname = "doc2"
    /\ ops.out[2].bytes = <<2, 3, 1>> /\ ops.out[2].mimetype = "text/plain"

\* C28 (as stated): once the output has terminated every source file part has
\* its one buffer.
C28_BufferPerPart ==
    ops.outState # "open" => Range(ops.from) = DOMAIN ops.parts

\* C29: with autodrain on, the drain subscription is attached to the file
\* channel when the handler's result stream is subscribed, before the byte
\* source is fed to the tokenizer, and stays attached after the handler's
\* stream has ended, until the file channel completes or errors; every file
\* part published during the request reaches the drain pass (it is resumed
\* as it is published).
C29_DrainAttachedThroughout ==
    cfg.autodrain =>
        /\ icp.drainSub <=> (icp.handler # "idle" /\ icp.reqFiles /\ files.state = "open")
        /\ dec.sub # "idle" => ~hist.pairFed
        /\ Len(fs) > 0 => icp.handler # "idle"
        /\ \A i \in DOMAIN fs : fs[i].flow # "paused"

C29_Witness ==
    /\ cfg.autodrain /\ cfg.hSubFiles /\ icp.handler = "completed" /\ icp.done
    /\ icp.drainSub /\ Len(fs) = 1 /\ ~fs[1].recv /\ ~fs[1].reader
    /\ fs[1].flow = "flowing" /\ fs[1].discarded >= 1

\* C30: every failure the fail path publishes ends the request's parse for
\* good: in the step that publishes it the decoder's teardown has run, the byte
\* source is detached and the tokenizer's listeners are gone, the handler's
\* result stream is no longer subscribed, and the interceptor's output has
\* terminated with that error; the output never completes afterwards.
C30_FailureEndsRequest ==
    [][(hist.nFail' = hist.nFail + 1 /\ hist.lastFail'.gate) =>
          /\ dec.torn' /\ ~dec.piped' /\ ~dec.bbListeners'
          /\ icp.handler' \in {"cancelled", "completed", "errored"}
          /\ icp.out' = "error"
          /\ files.state = "open" => (files.err' # "none" /\ icp.outErr' = files.err')]_vars

\* --------------------------------------- claims on decoder subscriptions

\* C31: over the whole request the byte source is attached to at most one
\* tokenizer, however many subscriptions are made to the decoder's stream.
C31_OneTokenizer ==
    Cardinality({i \in DOMAIN ops.subs : ops.subs[i].attached}) <= 1

\* ------------------------------------------ claims on execution contexts

\* C32: for a non-HTTP context the interceptor passes the call through (the
\* output is the handler's stream, the decoder is not started, the request is
\* neither paused nor read, no channels are stored) and the file and field
\* decorators give a stream that completes at once with no values; they give
\* the same empty stream when the request carries no channels.
C32_NonHttpPassThrough ==
    /\ ops.ctxType # "http" =>
          /\ ops.req = "untouched" /\ ops.decoder = "none"
          /\ ops.out = ops.hLog
          /\ ops.handler # "idle" => (ops.param = "EMPTY" /\ ops.paramLog = <<"c">>)
    /\ (ops.handler # "idle" /\ ~ops.channels) =>
          (ops.param = "EMPTY" /\ ops.paramLog = <<"c">>)
    /\ ops.param = "EMPTY" => ops.paramLog = <<"c">>
    /\ (ops.param # "EMPTY" /\ ops.decoder # "complete") => ops.paramLog = <<>>

C32_Witness ==
    /\ ops.ctxType = "ws" /\ ops.channels /\ ops.shape = "undefined"
    /\ ops.handler = "completed" /\ ops.out = <<"n", "c">>
    /\ ops.param = "EMPTY" /\ ops.paramLog = <<"c">> /\ ops.req = "untouched"

\* C33: bufferFiles emits the buffers in the order in which the source
\* published the file parts, whichever read finishes first.
C33_BuffersInSourceOrder ==
    \A j, k \in DOMAIN ops.from : j < k => ops.from[j] < ops.from[k]

\* C34: once the decoder's output has been unsubscribed (teardown done)
\* nothing more is delivered on the file channel or the field channel: no
\* value, no error, no completion, whatever the tokenizer, a published file
\* stream or the request byte source does afterwards.
C34_SilentAfterUnsubscribe ==
    [][(dec.sub = "closed" /\ dec.torn) => (files' = files /\ fields' = fields)]_vars

\* C35: with autodrain on, when the handler's result stream terminates and
\* the byte source ends or fails, the interceptor's output eventually
\* terminates, also when a failure after the done signal is swallowed. Stated
\* for runs without an uncaught exception (see C3).
C35_OutputTerminates ==
    (cfg.autodrain /\ []Alive /\ <>(icp.handler \in {"completed", "errored", "cancelled"}))
        => <>(icp.out # "open")

\* C36: the interceptor's output completes only after the handler's result
\* stream has completed and the decoder's stream has completed (the tokenizer
\* has finished the body); while the tokenizer is still parsing it does not
\* complete, even when the handler's result completed earlier.
C36_CompletesAfterBoth ==
    /\ icp.out = "complete" =>
          (icp.handler = "completed" /\ dec.sub = "complete" /\ tok.finished)
    /\ (icp.handler = "completed" /\ ~tok.finished) => icp.out # "complete"

C36_Witness ==
    /\ icp.out = "complete" /\ cfg.hSubFiles
    /\ Len(fs) = 1 /\ ~fs[1].recv /\ fs[1].ended /\ tok.n = 2

\* C37: a consumer subscribed to the channels on receipt of the pair gets
\* every file part and every field published, nothing having been published
\* before; a consumer that subscribes later gets exactly what is published
\* after it attached and misses what came before.
C37_NoPartLostInTime ==
    /\ Len(ops.fileItems) = Len(PublishedFiles(ops.emitted))
    /\ \A k \in DOMAIN ops.fileItems : ops.fileItems[k] = PublishedFiles(ops.emitted)[k]
    /\ Len(ops.fieldItems) = Len(PublishedFields(ops.emitted))
    /\ \A k \in DOMAIN ops.fieldItems : ops.fieldItems[k] = PublishedFields(ops.emitted)[k]
    /\ ops.late.attached =>
          /\ ops.late.fileItems =
                SubSeq(ops.fileItems, ops.late.fromFiles + 1, Len(ops.fileItems))
          /\ ops.late.fieldItems =
                SubSeq(ops.fieldItems, ops.late.fromFields + 1, Len(ops.fieldItems))
    /\ ~ops.late.attached => (ops.late.fileItems = <<>> /\ ops.late.fieldItems = <<>>)

C37_Witness ==
    /\ Len(ops.fieldItems) = 2 /\ Len(ops.fileItems) = 1
    /\ ops.late.attached /\ ops.late.fromFields = 1 /\ ops.late.fromFiles = 0
    /\ Len(ops.late.fieldItems) = 1 /\ Len(ops.late.fileItems) = 1

\* ---------------------------------------- claims on validated streams

\* What a subscription that observed the parts seen must report at the
\* channel's completion, from the required list alone.
MissingFor(kind, args, seen) ==
    LET FileMissing(n) == n \notin Range(seen)
        FieldMissing(p) == ~\E k \in DOMAIN seen : matchesFieldPattern(seen[k], p)
    IN  IF kind = "validateFiles" THEN SelectSeq(NewSet(args), FileMissing)
        ELSE SelectSeq(args, FieldMissing)

\* C38: the tracking state of validateRequiredFiles and validateRequiredFields
\* belongs to one subscription: each subscription starts from the full
\* required set, and whether it ends with a missing-item error, and with which
\* items, depends on the parts it observed itself and on nothing another
\* subscription observed.
C38_TrackingPerSubscription ==
    \A i \in DOMAIN ops.subs :
        LET s == ops.subs[i]
            missing == MissingFor(ops.kind, ops.args, s.inp)
        IN  /\ s.inp = <<>> => (s.remaining = NewSet(ops.args) /\ s.matched = {})
            /\ ops.up = "complete" =>
                  s.out[Len(s.out)] =
                      IF Len(missing) = 0 THEN CompleteOf
                      ELSE ErrorOf(IF ops.kind = "validateFiles"
                                   THEN "MissingFilesError" ELSE "MissingFieldsError",
                                   missing)
            /\ ops.up = "open" =>
                  s.out = [k \in DOMAIN s.inp |-> NextOf(s.inp[k])]

C38_Witness ==
    /\ Len(ops.subs) = 2 /\ ops.up = "complete" /\ ops.args = <<<<"a">>, <<"b">>>>
    /\ ops.published = <<<<"a">>, <<"b">>>>
    /\ ops.subs[1].out[3] = CompleteOf
    /\ ops.subs[2].inp = <<<<"b">>>>
    /\ ops.subs[2].out[2].k = "e" /\ ops.subs[2].out[2].list = <<<<"a">>>>

\* C39: the truncation error on a file part's own stream is not gated by the
\* done signal: when a truncated file that a reader with an error listener is
\* still reading reaches its end after the done signal completed, with
\* bubbleErrors false, the reader gets TruncatedFileError on the file stream
\* while the file channel, the field channel and the decoder's stream get no
\* error.
C39_FileErrorUngated ==
    [][\A i \in DOMAIN fs :
          (/\ fs[i].trunc /\ fs[i].reader /\ fs[i].errL /\ ~fs[i].ended
           /\ icp.done /\ cfg.bubbleErrors = FALSE
           /\ dec.sub = "open" /\ files.state = "open" /\ fields.state = "open"
           /\ fs'[i].ended)
          => /\ fs'[i].err = "emitted"
             /\ files'.state # "error" /\ fields'.state # "error"
             /\ dec'.sub # "error"]_vars

====
